---- MODULE Spec2Model ----
(***************************************************************************)
(* A model of game_rs: the tag query language (src/src/tag.rs), the        *)
(* per-game configuration compiler (src/src/main.rs, parse_config and      *)
(* parse_game_config), the command builder (src/src/game_builder.rs), the  *)
(* launcher (src/src/game.rs), the play-time ledger (src/src/stats.rs and  *)
(* play_game of src/src/main.rs) and the list / random / stats commands.   *)
(*                                                                         *)
(* Strings the program splits, joins, formats or compares are sequences of *)
(* one-character strings, so that parsing and formatting are computed and  *)
(* not assumed.  A toml Table is a function from keys to values; its keys  *)
(* are iterated in ascending order (toml's Table is a BTreeMap).           *)
(***************************************************************************)
EXTENDS Integers, Sequences, FiniteSets, TLC

VARIABLES
    q_game,     \* tag selection: the Game a selector list is tried on
    q_args,     \* tag selection: the selector list (tag_groups_raw)
    q_out,      \* tag selection: the call made and what it returned
    config,     \* parse_config: the parsed document (a toml Table)
    settings,   \* parse_config: the Settings read from the document
    directories,\* parse_config: the directories table
    todo,       \* parse_config: the game ids still to compile, in order
    games,      \* parse_config: the Games map built so far
    game_id,    \* parse_game_config: the id of the table being compiled
    keys,       \* parse_game_config: the keys of the table still to apply
    builder,    \* parse_game_config: the GameBuilder
    built,      \* the last call of build: its builder, result and the
                \* local use_mangohud
    result,     \* what parse_config returned
    pc,         \* where parse_config is
    ledger,     \* the stats file: NONE when missing, else its content
    ledger0,    \* the stats file before the first command
    local_offset,   \* UtcOffset::current_local_offset(): Some(seconds), or
                    \* NONE when the offset cannot be determined
    overflow_checks,\* whether the build panics on arithmetic overflow
    plays,      \* the number of times fs::write has opened the stats file
    effects,    \* the calls to the system of the command that returned
                \* last, in order
    op_in,      \* the arguments of the command that returned last, or of
                \* a single operation applied on its own
    out,        \* the command or operation that returned last and what it
                \* returned; idle once another command has started
    sessions    \* the processes that run commands: for each, where its
                \* command is and what it holds in memory

qvars == <<q_game, q_args, q_out>>
cvars == <<config, settings, directories, todo, games, game_id, keys,
           builder, built, result, pc>>
lvars == <<ledger, ledger0, local_offset, overflow_checks, plays, effects,
           op_in, out, sessions>>
vars == <<q_game, q_args, q_out, config, settings, directories, todo, games,
          game_id, keys, builder, built, result, pc, ledger, ledger0,
          local_offset, overflow_checks, plays, effects, op_in, out,
          sessions>>

(***************************************************************************)
(* Bounds of the model.                                                    *)
(***************************************************************************)
\* longest query string of a one-element selector list
MaxLen == 4
\* longest query string in a two-element selector list
MaxPairLen == 2
\* most argument words after the program in a cmd or wine_exe string
MaxArgs == 1
\* largest play time, in seconds, of the range format_play_time is applied to
MaxSeconds == 7300
\* most sessions recorded in one behaviour
MaxPlays == 2

(***************************************************************************)
(* Strings.                                                                *)
(***************************************************************************)
NONE == [t |-> "None"]
Some(v) == [t |-> "Some", v |-> v]

\* F applied to the value of v, which is computed once
Bind(v, F(_)) == CHOOSE r \in {F(x) : x \in {v}} : TRUE

\* str::split on a one-character separator: always at least one piece
Split(s, sep) ==
    LET RECURSIVE go(_, _, _)
        go(i, cur, acc) ==
            IF i > Len(s) THEN Append(acc, cur)
            ELSE IF s[i] = sep THEN go(i + 1, <<>>, Append(acc, cur))
            ELSE go(i + 1, Append(cur, s[i]), acc)
    IN go(1, <<>>, <<>>)

\* the strings of length at most n over alphabet A (an input domain)
StringsUpTo(A, n) == UNION {[1..k -> A] : k \in 0..n}

\* byte order of the characters the model uses (String's Ord)
AsciiOrder ==
    <<" ", "!", "#", "'", "*", ",", "-", ".", "/", "0", "1", "2", "3", "4",
      "5", "6", "7", "8", "9", ":", "=", "A", "B", "C", "D", "E", "F", "G",
      "H", "I", "J", "K", "L", "M", "N", "O", "P", "Q", "R", "S", "T", "U",
      "V", "W", "X", "Y", "Z", "_", "a", "b", "c", "d", "e", "f", "g", "h",
      "i", "j", "k", "l", "m", "n", "o", "p", "q", "r", "s", "t", "u", "v",
      "w", "x", "y", "z">>

CharRank(c) == CHOOSE i \in 1..Len(AsciiOrder) : AsciiOrder[i] = c

\* lexicographic order of strings, as String's Ord
StrLess(a, b) ==
    LET RECURSIVE lt(_)
        lt(i) ==
            IF i > Len(b) THEN FALSE
            ELSE IF i > Len(a) THEN TRUE
            ELSE IF a[i] = b[i] THEN lt(i + 1)
            ELSE CharRank(a[i]) < CharRank(b[i])
    IN lt(1)

\* the strings of a set in ascending order: the iteration order of a
\* BTreeMap's keys, and what Vec::sort gives
RECURSIVE SortedStrings(_)
SortedStrings(S) ==
    IF S = {} THEN <<>>
    ELSE LET least == CHOOSE x \in S : \A y \in S \ {x} : StrLess(x, y)
         IN <<least>> \o SortedStrings(S \ {least})

DIGITS == <<"0", "1", "2", "3", "4", "5", "6", "7", "8", "9">>

\* Display of an unsigned integer: its decimal digits
RECURSIVE Dec(_)
Dec(n) == IF n < 10 THEN <<DIGITS[n + 1]>> ELSE Dec(n \div 10) \o <<DIGITS[(n % 10) + 1]>>

\* Display of an i64: a minus sign, then the digits of the magnitude
DecSigned(i) == IF i < 0 THEN <<"-">> \o Dec(0 - i) ELSE Dec(i)

\* a u32 as its two 16-bit halves, hi * 2^16 + lo
HALF == 65536
U32(n) == [hi |-> n \div HALF, lo |-> n % HALF]

\* `*i as u32` of parse_config: the low 32 bits of the i64 (two's
\* complement), so -1 becomes 2^32 - 1
AsU32(i) == [hi |-> (i \div HALF) % HALF, lo |-> i % HALF]

\* Display of a u32: long division by ten on the two halves
RECURSIVE DecU32(_)
DecU32(u) ==
    IF u.hi = 0 /\ u.lo < 10 THEN <<DIGITS[u.lo + 1]>>
    ELSE LET low == (u.hi % 10) * HALF + u.lo
         IN DecU32([hi |-> u.hi \div 10, lo |-> low \div 10])
            \o <<DIGITS[(low % 10) + 1]>>

\* HashMap / Table as a function; insert replaces
EmptyMap == [k \in {} |-> k]
MapInsert(m, k, v) == [x \in (DOMAIN m) \cup {k} |-> IF x = k THEN v ELSE m[x]]
MapGet(m, k) == IF k \in DOMAIN m THEN Some(m[k]) ELSE NONE

\* toml::Value
VStr(s) == [t |-> "String", v |-> s]
VInt(i) == [t |-> "Integer", v |-> i]
VBool(b) == [t |-> "Boolean", v |-> b]
VArr(a) == [t |-> "Array", v |-> a]
VTbl(m) == [t |-> "Table", v |-> m]

IsStr(o) == o.t = "Some" /\ o.v.t = "String"
IsInt(o) == o.t = "Some" /\ o.v.t = "Integer"
IsBool(o) == o.t = "Some" /\ o.v.t = "Boolean"
IsArr(o) == o.t = "Some" /\ o.v.t = "Array"
IsTbl(o) == o.t = "Some" /\ o.v.t = "Table"

(***************************************************************************)
(* shell_words::split, the word splitter parse_cmd, parse_wine_exe and     *)
(* build call: whitespace separates words, quotes join, a backslash        *)
(* escapes, '#' at the start of a word opens a comment; an unclosed quote  *)
(* is an error.                                                            *)
(***************************************************************************)
IsSpace(c) == c \in {" ", "\t", "\n"}

\* the grave accent (U+0060), which no string literal of TLA+ can hold:
\* this string stands for the one character
BACKTICK == "BACKTICK"

\* one character c in state st = [state, word, words]
ShellStep(st, c) ==
    LET word == st.word
        words == st.words
        To(state, w, ws) == [state |-> state, word |-> w, words |-> ws]
    IN
    CASE st.state = "Delimiter" ->
            IF c = "'" THEN To("SingleQuoted", word, words)
            ELSE IF c = "\"" THEN To("DoubleQuoted", word, words)
            ELSE IF c = "\\" THEN To("Backslash", word, words)
            ELSE IF IsSpace(c) THEN To("Delimiter", word, words)
            ELSE IF c = "#" THEN To("Comment", word, words)
            ELSE To("Unquoted", Append(word, c), words)
      [] st.state = "Backslash" ->
            IF c = "\n" THEN To("Delimiter", word, words)
            ELSE To("Unquoted", Append(word, c), words)
      [] st.state = "Unquoted" ->
            IF c = "'" THEN To("SingleQuoted", word, words)
            ELSE IF c = "\"" THEN To("DoubleQuoted", word, words)
            ELSE IF c = "\\" THEN To("UnquotedBackslash", word, words)
            ELSE IF IsSpace(c) THEN To("Delimiter", <<>>, Append(words, word))
            ELSE To("Unquoted", Append(word, c), words)
      [] st.state = "UnquotedBackslash" ->
            IF c = "\n" THEN To("Unquoted", word, words)
            ELSE To("Unquoted", Append(word, c), words)
      [] st.state = "SingleQuoted" ->
            IF c = "'" THEN To("Unquoted", word, words)
            ELSE To("SingleQuoted", Append(word, c), words)
      [] st.state = "DoubleQuoted" ->
            IF c = "\"" THEN To("Unquoted", word, words)
            ELSE IF c = "\\" THEN To("DoubleQuotedBackslash", word, words)
            ELSE To("DoubleQuoted", Append(word, c), words)
      [] st.state = "DoubleQuotedBackslash" ->
            IF c = "\n" THEN To("DoubleQuoted", word, words)
            ELSE IF c \in {"$", BACKTICK, "\"", "\\"}
                 THEN To("DoubleQuoted", Append(word, c), words)
            ELSE To("DoubleQuoted", Append(Append(word, "\\"), c), words)
      [] st.state = "Comment" ->
            IF c = "\n" THEN To("Delimiter", word, words)
            ELSE To("Comment", word, words)

\* the end of the input in state st
ShellEnd(st) ==
    CASE st.state \in {"Delimiter", "Comment"} ->
            [ok |-> TRUE, words |-> st.words]
      [] st.state \in {"Backslash", "UnquotedBackslash"} ->
            [ok |-> TRUE, words |-> Append(st.words, Append(st.word, "\\"))]
      [] st.state = "Unquoted" ->
            [ok |-> TRUE, words |-> Append(st.words, st.word)]
      [] st.state \in {"SingleQuoted", "DoubleQuoted", "DoubleQuotedBackslash"} ->
            [ok |-> FALSE]

ShellSplit(s) ==
    LET RECURSIVE run(_, _, _)
        \* the state after the characters lo..hi, from state st
        run(st, lo, hi) ==
            IF lo > hi THEN st
            ELSE IF lo = hi THEN ShellStep(st, s[lo])
            ELSE LET mid == (lo + hi) \div 2
                     left == run(st, lo, mid)
                 \* the test makes the left half's state a value before
                 \* the right half starts from it
                 IN IF left.state = "" THEN left ELSE run(left, mid + 1, hi)
    IN ShellEnd(run([state |-> "Delimiter", word |-> <<>>, words |-> <<>>],
                    1, Len(s)))

\* Path::new(a).join(b).to_str(): an absolute b replaces a; otherwise a
\* separator is added unless a is empty or ends in one
PathJoin(a, b) ==
    IF Len(b) > 0 /\ b[1] = "/" THEN b
    ELSE IF Len(a) > 0 /\ a[Len(a)] # "/" THEN a \o <<"/">> \o b
    ELSE a \o b

(***************************************************************************)
(* tag.rs: TagGroup::parse and TagGroup::matches.                          *)
(***************************************************************************)
NOT_PREFIX == "!"

\* the closure of TagGroup::parse: one Tag from one comma-separated piece
ParseTag_NoStrip(tag) == [name |-> tag, is_negated |-> FALSE]

ParseTag(tag) ==
    IF Len(tag) >= 1 /\ tag[1] = NOT_PREFIX
    THEN [name |-> Tail(tag), is_negated |-> TRUE]
    ELSE [name |-> tag, is_negated |-> FALSE]

TagGroupParse(s) ==
    LET parts == Split(s, ",")
    IN [tags |-> [i \in 1..Len(parts) |-> ParseTag(parts[i])]]

\* a mutant of TagGroupMatches: any one satisfied tag is enough
TagGroupMatches_Any(group, tags) ==
    LET tag_set == {tags[i] : i \in DOMAIN tags}
    IN \E i \in DOMAIN group.tags :
          \/ group.tags[i].is_negated /\ group.tags[i].name \notin tag_set
          \/ ~group.tags[i].is_negated /\ group.tags[i].name \in tag_set

TagGroupMatches(group, tags) ==
    LET tag_set == {tags[i] : i \in DOMAIN tags}
    IN \A i \in DOMAIN group.tags :
          \/ group.tags[i].is_negated /\ group.tags[i].name \notin tag_set
          \/ ~group.tags[i].is_negated /\ group.tags[i].name \in tag_set

(***************************************************************************)
(* main.rs: game_matches_tags.                                             *)
(***************************************************************************)
\* a mutant of GameMatchesTags: the game's id is not tried as a tag
GameMatchesTags_NoId(game, tag_groups_raw) ==
    \E i \in DOMAIN tag_groups_raw :
        TagGroupMatches(TagGroupParse(tag_groups_raw[i]), game.tags)

GameMatchesTags(game, tag_groups_raw) ==
    \E i \in DOMAIN tag_groups_raw :
        LET tag_group == TagGroupParse(tag_groups_raw[i])
        IN \/ TagGroupMatches(tag_group, game.tags)
           \/ TagGroupMatches(tag_group, <<game.id>>)

(***************************************************************************)
(* String literals of the program.                                         *)
(***************************************************************************)
S_wine == <<"w", "i", "n", "e">>
S_scummvm == <<"s", "c", "u", "m", "m", "v", "m">>
S_dosbox == <<"d", "o", "s", "b", "o", "x">>
S_conf == <<"-", "c", "o", "n", "f">>
S_mangohud == <<"m", "a", "n", "g", "o", "h", "u", "d">>
S_r == <<"-", "r">>
S_mangoapp == <<"-", "-", "m", "a", "n", "g", "o", "a", "p", "p">>
S_dashdash == <<"-", "-">>
S_gamescope_W == <<"g", "a", "m", "e", "s", "c", "o", "p", "e", " ", "-", "W", " ">>
S_H == <<" ", "-", "H", " ">>
S_f_grab ==
    <<" ", "-", "f", " ", "-", "-", "f", "o", "r", "c", "e", "-", "g", "r",
      "a", "b", "-", "c", "u", "r", "s", "o", "r">>
MANGOHUD_CONFIG ==
    <<"M", "A", "N", "G", "O", "H", "U", "D", "_", "C", "O", "N", "F", "I", "G">>
S_fps_limit_eq == <<"f", "p", "s", "_", "l", "i", "m", "i", "t", "=">>
WINEDLLOVERRIDES ==
    <<"W", "I", "N", "E", "D", "L", "L", "O", "V", "E", "R", "R", "I", "D", "E", "S">>
DLL_OVERRIDES ==
    <<"*", "d", "3", "d", "9", ",", "*", "d", "3", "d", "1", "0", ",", "*",
      "d", "3", "d", "1", "0", "_", "1", ",", "*", "d", "3", "d", "1", "0",
      "c", "o", "r", "e", ",", "*", "d", "3", "d", "1", "1", ",", "*", "d",
      "x", "g", "i", "=", "b">>

K_cmd == <<"c", "m", "d">>
K_dir == <<"d", "i", "r">>
K_dir_prefix == <<"d", "i", "r", "_", "p", "r", "e", "f", "i", "x">>
K_dosbox_config == <<"d", "o", "s", "b", "o", "x", "_", "c", "o", "n", "f", "i", "g">>
K_env == <<"e", "n", "v">>
K_fps_limit == <<"f", "p", "s", "_", "l", "i", "m", "i", "t">>
K_installed == <<"i", "n", "s", "t", "a", "l", "l", "e", "d">>
K_name == <<"n", "a", "m", "e">>
K_scummvm_id == <<"s", "c", "u", "m", "m", "v", "m", "_", "i", "d">>
K_tags == <<"t", "a", "g", "s">>
K_use_gamescope == <<"u", "s", "e", "_", "g", "a", "m", "e", "s", "c", "o", "p", "e">>
K_use_mangohud == <<"u", "s", "e", "_", "m", "a", "n", "g", "o", "h", "u", "d">>
K_use_vk == <<"u", "s", "e", "_", "v", "k">>
K_wine_exe == <<"w", "i", "n", "e", "_", "e", "x", "e">>
K_settings == <<"s", "e", "t", "t", "i", "n", "g", "s">>
K_directories == <<"d", "i", "r", "e", "c", "t", "o", "r", "i", "e", "s">>
K_games == <<"g", "a", "m", "e", "s">>
K_width == <<"w", "i", "d", "t", "h">>
K_height == <<"h", "e", "i", "g", "h", "t">>

DEFAULT_WIDTH == 1280
DEFAULT_HEIGHT == 720

(***************************************************************************)
(* Results.                                                                *)
(***************************************************************************)
Ok(v) == [t |-> "Ok", v |-> v]
Err(e) == [t |-> "Err", e |-> e]
\* a panic: the thread aborts, no Result reaches the caller
Panic(msg) == [t |-> "Panic", msg |-> msg]

MissingName(id) == [kind |-> "MissingName", id |-> id]
MissingCommand(id) == [kind |-> "MissingCommand", id |-> id]
NoSuchDirectoryPrefix(id, prefix) ==
    [kind |-> "NoSuchDirectoryPrefix", id |-> id, prefix |-> prefix]
UnrecognizedOption(key) == [kind |-> "UnrecognizedOption", key |-> key]
GameNotTable == [kind |-> "GameNotTable"]
MissingGameTable == [kind |-> "MissingGameTable"]
TomlError == [kind |-> "TomlError"]

(***************************************************************************)
(* game_builder.rs: GameBuilder.  directories and settings are borrowed    *)
(* from parse_config and passed to Build.                                  *)
(***************************************************************************)
GameBuilderNew(id) ==
    [id |-> id, name |-> NONE, dir |-> <<>>, dir_prefix |-> <<>>,
     command |-> <<>>, env |-> EmptyMap, tags |-> <<>>,
     use_mangohud |-> NONE, fps_limit |-> NONE, use_gamescope |-> FALSE,
     use_vk |-> TRUE, installed |-> TRUE]

SetName(b, name) == [b EXCEPT !.name = Some(name)]
SetCommand(b, command) == [b EXCEPT !.command = command]
SetDirPrefix(b, dir_prefix) == [b EXCEPT !.dir_prefix = dir_prefix]
SetDir(b, dir) == [b EXCEPT !.dir = dir]
SetEnv(b, env) == [b EXCEPT !.env = env]
SetTags(b, tags) == [b EXCEPT !.tags = tags]
SetMangohud(b, use_mangohud) == [b EXCEPT !.use_mangohud = Some(use_mangohud)]
SetFpsLimit(b, limit) == [b EXCEPT !.fps_limit = Some(limit)]
SetUseGamescope(b) == [b EXCEPT !.use_gamescope = TRUE]
SetUseVk(b, v) == [b EXCEPT !.use_vk = v]
SetNotInstalled(b) == [b EXCEPT !.installed = FALSE]

IsWine(b) == b.command # <<>> /\ b.command[1] = S_wine

\* a mutant of DirPrefixFound: the prefix counts only beside a dir
DirPrefixFound_NeedsDir(b, dirs) ==
    IsStr(MapGet(dirs, b.dir_prefix)) /\ b.dir # <<>>

\* build, lines 114-126: the directory prefix names an entry of directories
DirPrefixFound(b, dirs) == IsStr(MapGet(dirs, b.dir_prefix))

ResolvedDirPrefix(b, dirs) ==
    IF b.dir_prefix # <<>> THEN MapGet(dirs, b.dir_prefix).v.v ELSE b.dir_prefix

\* a mutant of ResolvedDir: dir is never looked up in directories
ResolvedDir_Literal(b, dirs) == b.dir

\* build, lines 128-131: dir is replaced when it is itself an alias
ResolvedDir(b, dirs) ==
    IF IsStr(MapGet(dirs, b.dir)) THEN MapGet(dirs, b.dir).v.v ELSE b.dir

\* build, lines 133-137
GameDir(b, dirs) == PathJoin(ResolvedDirPrefix(b, dirs), ResolvedDir(b, dirs))

\* a mutant of UseMangohud: the explicit flag is not consulted
UseMangohud_Inferred(b) == IsWine(b)

\* build, lines 139-140
UseMangohud(b) ==
    \/ b.use_mangohud.t = "Some" /\ b.use_mangohud.v
    \/ b.use_mangohud.t = "None" /\ IsWine(b)

\* build, lines 143-147: the gamescope prefix, formatted and split
GamescopePrefix(stg) ==
    ShellSplit(S_gamescope_W \o DecU32(stg.width) \o S_H
               \o DecU32(stg.height) \o S_f_grab).words

\* a mutant of BuildCommand: mangohud wraps the command inside gamescope too
BuildCommand_MangohudInside(b, stg, use_mangohud) ==
    IF stg.use_gamescope
    THEN GamescopePrefix(stg)
         \o (IF b.fps_limit.t = "Some"
             THEN <<S_r, DecSigned(b.fps_limit.v)>> ELSE <<>>)
         \o (IF use_mangohud THEN <<S_mangoapp>> ELSE <<>>)
         \o <<S_dashdash>>
         \o (IF use_mangohud THEN <<S_mangohud>> ELSE <<>>)
         \o b.command
    ELSE IF use_mangohud THEN <<S_mangohud>> \o b.command
    ELSE b.command

\* a mutant of BuildCommand: under mangohud only the program is kept, its
\* arguments are dropped
BuildCommand_ProgramOnly(b, stg, use_mangohud) ==
    IF stg.use_gamescope
    THEN GamescopePrefix(stg)
         \o (IF b.fps_limit.t = "Some"
             THEN <<S_r, DecSigned(b.fps_limit.v)>> ELSE <<>>)
         \o (IF use_mangohud THEN <<S_mangoapp>> ELSE <<>>)
         \o <<S_dashdash>>
         \o b.command
    ELSE IF use_mangohud THEN <<S_mangohud, b.command[1]>>
    ELSE b.command

\* build, lines 142-169
BuildCommand(b, stg, use_mangohud) ==
    IF stg.use_gamescope
    THEN GamescopePrefix(stg)
         \o (IF b.fps_limit.t = "Some"
             THEN <<S_r, DecSigned(b.fps_limit.v)>> ELSE <<>>)
         \o (IF use_mangohud THEN <<S_mangoapp>> ELSE <<>>)
         \o <<S_dashdash>>
         \o b.command
    ELSE IF use_mangohud THEN <<S_mangohud>> \o b.command
    ELSE b.command

\* a mutant of EnvWithFpsLimit: an entry of the game's env table is kept
EnvWithFpsLimit_KeepsEntry(b, env, use_mangohud) ==
    IF use_mangohud /\ b.fps_limit.t = "Some" /\ MANGOHUD_CONFIG \notin DOMAIN env
    THEN MapInsert(env, MANGOHUD_CONFIG, S_fps_limit_eq \o DecSigned(b.fps_limit.v))
    ELSE env

\* build, lines 171-177
EnvWithFpsLimit(b, env, use_mangohud) ==
    IF use_mangohud /\ b.fps_limit.t = "Some"
    THEN MapInsert(env, MANGOHUD_CONFIG, S_fps_limit_eq \o DecSigned(b.fps_limit.v))
    ELSE env

\* a mutant of EnvWithDllOverrides: the test of use_vk is inverted
EnvWithDllOverrides_Inverted(b, env) ==
    IF b.use_vk THEN MapInsert(env, WINEDLLOVERRIDES, DLL_OVERRIDES) ELSE env

\* build, lines 179-184
EnvWithDllOverrides(b, env) ==
    IF ~b.use_vk THEN MapInsert(env, WINEDLLOVERRIDES, DLL_OVERRIDES) ELSE env

BuildEnv(b, use_mangohud) ==
    EnvWithDllOverrides(b, EnvWithFpsLimit(b, b.env, use_mangohud))

\* a mutant of RequiredFieldError: the command is checked first
RequiredFieldError_CommandFirst(b) ==
    IF b.command = <<>> THEN Some(MissingCommand(b.id))
    ELSE IF b.name.t = "None" THEN Some(MissingName(b.id))
    ELSE NONE

\* build, lines 104-110: the error of the required-field checks, if any
RequiredFieldError(b) ==
    IF b.name.t = "None" THEN Some(MissingName(b.id))
    ELSE IF b.command = <<>> THEN Some(MissingCommand(b.id))
    ELSE NONE

\* GameBuilder::build: the Result, and the local use_mangohud when build
\* got as far as computing it
Build(b, dirs, stg) ==
    IF RequiredFieldError(b).t = "Some"
    THEN [res |-> Err(RequiredFieldError(b).v), use_mangohud |-> NONE]
    ELSE IF b.dir_prefix # <<>> /\ ~DirPrefixFound(b, dirs)
    THEN [res |-> Err(NoSuchDirectoryPrefix(b.id, b.dir_prefix)),
          use_mangohud |-> NONE]
    ELSE LET game_dir == GameDir(b, dirs)
             use_mangohud == UseMangohud(b)
         IN [res |-> Ok([id |-> b.id,
                         name |-> b.name.v,
                         command |-> BuildCommand(b, stg, use_mangohud),
                         dir |-> IF game_dir # <<>> THEN Some(game_dir) ELSE NONE,
                         env |-> BuildEnv(b, use_mangohud),
                         tags |-> b.tags,
                         installed |-> b.installed]),
             use_mangohud |-> Some(use_mangohud)]

(***************************************************************************)
(* main.rs: the option handlers, each from (builder, game_config) to the   *)
(* builder.  parse_cmd and parse_wine_exe abort on an unclosed quote       *)
(* (expect), given here as ok = FALSE.                                     *)
(***************************************************************************)
Handled(b) == [ok |-> TRUE, b |-> b]
Aborted(msg) == [ok |-> FALSE, msg |-> msg]

ParseNameOp(b, game_config) ==
    IF game_config[K_name].t = "String"
    THEN Handled(SetName(b, game_config[K_name].v))
    ELSE Handled(b)

ParseScummvmIdOp(b, game_config) ==
    IF IsStr(MapGet(game_config, K_scummvm_id))
    THEN Handled(SetCommand(b, <<S_scummvm, game_config[K_scummvm_id].v>>))
    ELSE Handled(b)

ParseWineExeOp(b, game_config) ==
    IF IsStr(MapGet(game_config, K_wine_exe))
    THEN LET split == ShellSplit(game_config[K_wine_exe].v)
         IN IF split.ok
            THEN Handled(SetCommand(b, <<S_wine>> \o split.words))
            ELSE Aborted("Failed to parse wine command")
    ELSE Handled(b)

ParseDosboxConfOp(b, game_config) ==
    IF IsStr(MapGet(game_config, K_dosbox_config))
    THEN Handled(SetCommand(b, <<S_dosbox, S_conf, game_config[K_dosbox_config].v>>))
    ELSE Handled(b)

\* GetStr::get_str
GetStr(table, key) ==
    IF IsStr(MapGet(table, key)) THEN table[key].v ELSE <<>>

ParseDirPrefixOp(b, game_config) ==
    LET dir_prefix == GetStr(game_config, K_dir_prefix)
    IN IF dir_prefix # <<>> THEN Handled(SetDirPrefix(b, dir_prefix))
       ELSE Handled(b)

ParseCmdOp(b, game_config) ==
    IF IsStr(MapGet(game_config, K_cmd))
    THEN LET split == ShellSplit(game_config[K_cmd].v)
         IN IF split.ok
            THEN Handled(SetCommand(b, split.words))
            ELSE Aborted("Failed to parse shell command")
    ELSE Handled(b)

ParseDirOp(b, game_config) ==
    IF IsStr(MapGet(game_config, K_dir))
    THEN Handled(SetDir(b, game_config[K_dir].v))
    ELSE Handled(b)

ParseEnvOp(b, game_config) ==
    IF IsTbl(MapGet(game_config, K_env))
    THEN LET tbl == game_config[K_env].v
             strs == {k \in DOMAIN tbl : tbl[k].t = "String"}
         IN Handled(SetEnv(b, [k \in strs |-> tbl[k].v]))
    ELSE Handled(b)

ParseTagsOp(b, game_config) ==
    IF IsArr(MapGet(game_config, K_tags))
    THEN LET strs == SelectSeq(game_config[K_tags].v, LAMBDA x : x.t = "String")
         IN Handled(SetTags(b, [i \in 1..Len(strs) |-> strs[i].v]))
    ELSE Handled(b)

ParseUseMangohudOp(b, game_config) ==
    LET use_mangohud ==
            IF IsBool(MapGet(game_config, K_use_mangohud))
            THEN game_config[K_use_mangohud].v
            ELSE IsWine(b)
    IN Handled(SetMangohud(b, use_mangohud))

ParseFpsLimitOp(b, game_config) ==
    IF IsInt(MapGet(game_config, K_fps_limit))
    THEN Handled(SetFpsLimit(b, game_config[K_fps_limit].v))
    ELSE Handled(b)

ParseInstalledOp(b, game_config) ==
    IF IsBool(MapGet(game_config, K_installed))
    THEN IF ~game_config[K_installed].v
         THEN Handled(SetNotInstalled(b)) ELSE Handled(b)
    ELSE Handled(b)

ParseUseGamescopeOp(b, game_config) ==
    IF IsBool(MapGet(game_config, K_use_gamescope))
    THEN IF game_config[K_use_gamescope].v
         THEN Handled(SetUseGamescope(b)) ELSE Handled(b)
    ELSE Handled(b)

ParseUseVkOp(b, game_config) ==
    IF IsBool(MapGet(game_config, K_use_vk))
    THEN Handled(SetUseVk(b, game_config[K_use_vk].v))
    ELSE Handled(b)

\* the keys of option_parsers (parse_game_config)
OptionKeys ==
    {K_cmd, K_dir, K_dir_prefix, K_dosbox_config, K_env, K_fps_limit,
     K_installed, K_name, K_scummvm_id, K_tags, K_use_gamescope,
     K_use_mangohud, K_use_vk, K_wine_exe}

(***************************************************************************)
(* main.rs: parse_config, lines 449-486: settings and directories.         *)
(***************************************************************************)
ParseSettings(doc) ==
    IF IsTbl(MapGet(doc, K_settings))
    THEN LET tbl == doc[K_settings].v
         IN [width |-> IF IsInt(MapGet(tbl, K_width))
                       THEN AsU32(tbl[K_width].v) ELSE U32(DEFAULT_WIDTH),
             height |-> IF IsInt(MapGet(tbl, K_height))
                        THEN AsU32(tbl[K_height].v) ELSE U32(DEFAULT_HEIGHT),
             use_gamescope |-> IF IsBool(MapGet(tbl, K_use_gamescope))
                               THEN tbl[K_use_gamescope].v ELSE FALSE]
    ELSE [height |-> U32(0), width |-> U32(0), use_gamescope |-> FALSE]

ParseDirectories(doc) ==
    IF IsTbl(MapGet(doc, K_directories)) THEN doc[K_directories].v ELSE EmptyMap

(***************************************************************************)
(* The configuration documents the model compiles.                         *)
(***************************************************************************)
G == <<"g">>
N == <<"N">>
S_k == <<"k">>
S_z == <<"z">>
S_d == <<"d">>
S_p == <<"/", "p">>
S_60 == VInt(60)
K_aaa == <<"a", "a", "a">>
K_zzz == <<"z", "z", "z">>
K_use_manohud == <<"u", "s", "e", "_", "m", "a", "n", "o", "h", "u", "d">>

\* a key that may be absent
Opt(key, vals) == {EmptyMap} \cup {key :> v : v \in vals}

RECURSIVE ArgTail(_)
ArgTail(k) == IF k = 0 THEN <<>> ELSE <<" ", "x">> \o ArgTail(k - 1)

\* "g", "g x", ..., "wine", "wine x", ...
CmdStrings == {exe \o ArgTail(k) : exe \in {<<"g">>, S_wine}, k \in 0..MaxArgs}
WineExeStrings == {<<"g">> \o ArgTail(k) : k \in 0..MaxArgs}
S_unclosed == <<"'", "g">>

CommandOptions ==
    {K_cmd :> VStr(c) : c \in CmdStrings}
    \cup {K_wine_exe :> VStr(c) : c \in WineExeStrings}

DirectoriesOptions ==
    {EmptyMap,
     K_directories :> VTbl(S_k :> VStr(S_p)),
     K_directories :> VTbl(S_k :> VInt(3))}

GamescopeOn == K_use_gamescope :> VBool(TRUE)

SettingsOptions ==
    {EmptyMap,
     K_settings :> VTbl(EmptyMap),
     K_settings :> VTbl(GamescopeOn),
     K_settings :> VTbl(GamescopeOn @@ (K_width :> VInt(1920)) @@ (K_height :> VInt(1080))),
     K_settings :> VTbl((K_use_gamescope :> VBool(FALSE)) @@ (K_width :> VInt(1920)))}

UnrecognizedOptions ==
    {EmptyMap, K_aaa :> VInt(1), K_use_manohud :> VBool(TRUE), K_zzz :> VStr(<<"z">>),
     (K_aaa :> VInt(1)) @@ (K_zzz :> VStr(<<"z">>))}

EnvOptions ==
    Opt(K_env, {VTbl(MANGOHUD_CONFIG :> VStr(<<"x">>)),
                VTbl(WINEDLLOVERRIDES :> VStr(<<"y">>)),
                VTbl(WINEDLLOVERRIDES :> VStr(DLL_OVERRIDES))})

\* tables about the required fields, the directories and unknown keys
TablesA ==
    {n @@ c @@ p @@ d @@ u :
        n \in Opt(K_name, {VStr(N)}),
        c \in {EmptyMap, K_cmd :> VStr(S_unclosed)} \cup CommandOptions,
        p \in Opt(K_dir_prefix, {VStr(S_k), VStr(S_z)}),
        d \in Opt(K_dir, {VStr(S_d), VStr(S_k)}),
        u \in UnrecognizedOptions}

\* tables about the overlay, the compositor and the environment
TablesB ==
    {(K_name :> VStr(N)) @@ c @@ m @@ f @@ v @@ e :
        c \in CommandOptions,
        m \in Opt(K_use_mangohud, {VBool(TRUE), VBool(FALSE)}),
        f \in Opt(K_fps_limit, {S_60, VInt(-1)}),
        v \in Opt(K_use_vk, {VBool(TRUE), VBool(FALSE)}),
        e \in EnvOptions}

\* one more option, of any shape, on top of a plain table
ExtraOptions ==
    {K_name :> VInt(3),
     K_cmd :> VStr(S_unclosed), K_cmd :> VStr(<<>>), K_cmd :> VStr(<<" ">>),
     K_cmd :> VStr(<<"#", " ", "g">>), K_cmd :> VInt(3),
     K_cmd :> VStr(<<"s", "h", " ", "'", "s", " ", "t", "'">>),
     K_cmd :> VStr(<<"'", "w", "i", "n", "e", "'", " ", "g">>),
     K_cmd :> VStr(<<"w", "i", "n", "e", "g">>),
     K_wine_exe :> VStr(S_unclosed), K_wine_exe :> VStr(<<>>), K_wine_exe :> VInt(3),
     K_wine_exe :> VStr(<<"g">>),
     K_scummvm_id :> VStr(<<"s">>), K_scummvm_id :> VInt(3),
     K_dosbox_config :> VStr(<<"c">>), K_dosbox_config :> VBool(TRUE),
     K_dir :> VStr(<<"/", "d">>), K_dir :> VStr(<<>>), K_dir :> VInt(3),
     K_dir :> VStr(S_d),
     K_dir_prefix :> VStr(<<>>), K_dir_prefix :> VInt(3),
     K_env :> VTbl(EmptyMap), K_env :> VStr(<<"e">>),
     K_env :> VTbl((<<"A">> :> VInt(1)) @@ (<<"B">> :> VStr(<<"1">>))),
     K_tags :> VArr(<< VStr(<<"t">>) >>), K_tags :> VStr(<<"t">>),
     K_tags :> VArr(<< VStr(<<"t">>), VInt(3), VStr(<<"u">>) >>),
     K_use_mangohud :> VStr(<<"y", "e", "s">>),
     K_use_mangohud :> VBool(TRUE), K_use_mangohud :> VBool(FALSE),
     K_fps_limit :> VInt(0), K_fps_limit :> S_60, K_fps_limit :> VStr(<<"6", "0">>),
     K_installed :> VBool(TRUE), K_installed :> VBool(FALSE),
     K_installed :> VStr(<<"n", "o">>),
     K_use_gamescope :> VBool(TRUE), K_use_gamescope :> VBool(FALSE),
     K_use_gamescope :> VInt(1),
     K_use_vk :> VBool(FALSE), K_use_vk :> VStr(<<"n", "o">>)}

PlainTables ==
    {(K_name :> VStr(N)) @@ c :
        c \in {K_cmd :> VStr(<<"g">>), K_wine_exe :> VStr(<<"g">>),
               K_cmd :> VStr(S_wine \o <<" ", "g">>)}}

TablesC == {x @@ t : x \in ExtraOptions, t \in PlainTables}

GamesOf(table) == K_games :> VTbl(G :> VTbl(table))

\* a second game beside "g": before it ("a") or after it ("z")
Companions ==
    {id :> VTbl(t) :
        id \in {<<"a">>, <<"z">>},
        t \in {(K_name :> VStr(<<"A">>)) @@ (K_cmd :> VStr(<<"g">>)),
               K_cmd :> VStr(<<"g">>)}}

MainGames ==
    {G :> VTbl(t) : t \in PlainTables}
    \cup {G :> VTbl((K_zzz :> VInt(1)) @@ t) : t \in PlainTables}
    \cup {G :> VTbl((K_installed :> VBool(FALSE)) @@ t) : t \in PlainTables}
    \cup {G :> VStr(<<"g">>)}

\* documents with two games, without a games table, or of the wrong shape
DocsD ==
    {K_games :> VTbl(m @@ c) : m \in MainGames, c \in Companions}
    \cup {EmptyMap, K_settings :> VTbl(GamescopeOn), K_games :> VInt(3),
          K_games :> VTbl(EmptyMap)}
    \cup {x @@ GamesOf(t) :
            x \in {K_directories :> VInt(3), K_settings :> VStr(<<"s">>),
                   K_settings :> VTbl(GamescopeOn @@ (K_width :> VStr(<<"w">>))
                                      @@ (K_height :> VInt(0))),
                   K_settings :> VTbl(GamescopeOn @@ (K_width :> VInt(-1))
                                      @@ (K_height :> VInt(65536)))},
            t \in PlainTables}

\* directories whose strings end in a separator or are empty
DocsE ==
    {(K_directories :> VTbl((S_k :> VStr(<<"/", "p", "/">>)) @@ (S_z :> VStr(<<>>))))
     @@ GamesOf((K_name :> VStr(N)) @@ (K_cmd :> VStr(<<"g">>)) @@ p @@ d) :
        p \in Opt(K_dir_prefix, {VStr(S_k), VStr(S_z)}),
        d \in Opt(K_dir, {VStr(S_d), VStr(S_z), VStr(<<"/", "d">>)})}
    \cup {(K_directories :> VTbl(S_k :> VStr(S_p)))
          @@ GamesOf((K_name :> VStr(N)) @@ (K_cmd :> VStr(<<"g">>))
                     @@ (K_dir_prefix :> VStr(S_k)) @@ (K_dir :> VStr(d))) :
            d \in {<<"/", "d">>, <<"d", "/", "e">>}}

Docs ==
    DocsE \cup
    {d @@ GamesOf(t) : d \in DirectoriesOptions, t \in TablesA}
    \cup {st @@ GamesOf(t) : st \in SettingsOptions, t \in TablesB}
    \cup {st @@ GamesOf(t) : st \in {EmptyMap, K_settings :> VTbl(GamescopeOn)},
                             t \in TablesC}
    \cup DocsD

Configs == {VTbl(d) : d \in Docs} \cup {[t |-> "Malformed"]}

(***************************************************************************)
(* main.rs: parse_config and parse_game_config as a state machine: one     *)
(* step reads settings and directories, one step opens the next game's     *)
(* table, one step per key of the table applies its handler, one step      *)
(* builds.                                                                 *)
(***************************************************************************)
\* no stats file, no command run
LedgerIdle ==
    /\ ledger = NONE
    /\ ledger0 = NONE
    /\ local_offset = Some(0)
    /\ overflow_checks = TRUE
    /\ plays = 0
    /\ effects = <<>>
    /\ op_in = [op |-> "idle"]
    /\ out = [op |-> "idle"]
    /\ sessions = <<>>

CInit ==
    /\ config \in Configs
    /\ settings = NONE
    /\ directories = NONE
    /\ todo = <<>>
    /\ games = EmptyMap
    /\ game_id = NONE
    /\ keys = <<>>
    /\ builder = NONE
    /\ built = NONE
    /\ result = NONE
    /\ pc = "start"
    /\ q_game = NONE
    /\ q_args = <<>>
    /\ q_out = [op |-> "idle"]
    /\ LedgerIdle

\* parse_config up to the loop over the games
ParseConfig ==
    /\ pc = "start"
    /\ IF config.t = "Malformed"
       THEN /\ result' = Err(TomlError)
            /\ pc' = "done"
            /\ UNCHANGED <<settings, directories, todo>>
       ELSE /\ settings' = ParseSettings(config.v)
            /\ directories' = ParseDirectories(config.v)
            /\ IF K_games \notin DOMAIN config.v
               THEN /\ result' = Panic("no entry found for key")
                    /\ pc' = "done"
                    /\ UNCHANGED todo
               ELSE IF config.v[K_games].t # "Table"
               THEN /\ result' = Err(MissingGameTable)
                    /\ pc' = "done"
                    /\ UNCHANGED todo
               ELSE /\ todo' = SortedStrings(DOMAIN config.v[K_games].v)
                    /\ pc' = "games"
                    /\ UNCHANGED result
    /\ UNCHANGED <<config, games, game_id, keys, builder, built>>
    /\ UNCHANGED <<qvars, lvars>>

\* the loop of parse_config: the next game, and the start of
\* parse_game_config on its table
NextGame ==
    /\ pc = "games"
    /\ todo # <<>>
    /\ LET id == Head(todo)
           value == config.v[K_games].v[id]
       IN IF value.t = "Table"
          THEN /\ game_id' = Some(id)
               /\ builder' = GameBuilderNew(id)
               /\ keys' = SortedStrings(DOMAIN value.v)
               /\ todo' = Tail(todo)
               /\ pc' = "keys"
               /\ UNCHANGED result
          ELSE /\ result' = Err(GameNotTable)
               /\ pc' = "done"
               /\ UNCHANGED <<game_id, builder, keys, todo>>
    /\ UNCHANGED <<config, settings, directories, games, built>>
    /\ UNCHANGED <<qvars, lvars>>

\* the table parse_game_config is compiling
GameConfig == config.v[K_games].v[game_id.v].v

AtKey(key) == pc = "keys" /\ keys # <<>> /\ Head(keys) = key

\* one turn of the loop of parse_game_config with handler outcome r
Apply(r) ==
    /\ IF r.ok
       THEN /\ builder' = r.b
            /\ keys' = Tail(keys)
            /\ UNCHANGED <<result, pc>>
       ELSE /\ result' = Panic(r.msg)
            /\ pc' = "done"
            /\ UNCHANGED <<builder, keys>>
    /\ UNCHANGED <<config, settings, directories, todo, games, game_id, built>>
    /\ UNCHANGED <<qvars, lvars>>

ParseCmd == AtKey(K_cmd) /\ Apply(ParseCmdOp(builder, GameConfig))
ParseDir == AtKey(K_dir) /\ Apply(ParseDirOp(builder, GameConfig))
ParseDirPrefix == AtKey(K_dir_prefix) /\ Apply(ParseDirPrefixOp(builder, GameConfig))
ParseDosboxConf == AtKey(K_dosbox_config) /\ Apply(ParseDosboxConfOp(builder, GameConfig))
ParseEnv == AtKey(K_env) /\ Apply(ParseEnvOp(builder, GameConfig))
ParseFpsLimit == AtKey(K_fps_limit) /\ Apply(ParseFpsLimitOp(builder, GameConfig))
ParseInstalled == AtKey(K_installed) /\ Apply(ParseInstalledOp(builder, GameConfig))
ParseName == AtKey(K_name) /\ Apply(ParseNameOp(builder, GameConfig))
ParseScummvmId == AtKey(K_scummvm_id) /\ Apply(ParseScummvmIdOp(builder, GameConfig))
ParseTags == AtKey(K_tags) /\ Apply(ParseTagsOp(builder, GameConfig))
ParseUseGamescope == AtKey(K_use_gamescope) /\ Apply(ParseUseGamescopeOp(builder, GameConfig))
ParseUseMangohud == AtKey(K_use_mangohud) /\ Apply(ParseUseMangohudOp(builder, GameConfig))
ParseUseVk == AtKey(K_use_vk) /\ Apply(ParseUseVkOp(builder, GameConfig))
ParseWineExe == AtKey(K_wine_exe) /\ Apply(ParseWineExeOp(builder, GameConfig))

\* parse_game_config, lines 667-669: a key without a handler
RejectOption ==
    /\ pc = "keys"
    /\ keys # <<>>
    /\ Head(keys) \notin OptionKeys
    /\ result' = Err(UnrecognizedOption(Head(keys)))
    /\ pc' = "done"
    /\ UNCHANGED <<config, settings, directories, todo, games, game_id, keys,
                   builder, built>>
    /\ UNCHANGED <<qvars, lvars>>

\* parse_game_config, line 674, and parse_config, lines 490-491
BuildGame ==
    /\ pc = "keys"
    /\ keys = <<>>
    /\ LET r == Build(builder, directories, settings)
       IN /\ built' = Some([builder |-> builder, res |-> r.res,
                            use_mangohud |-> r.use_mangohud])
          /\ IF r.res.t = "Ok"
             THEN /\ games' = MapInsert(games, game_id.v, r.res.v)
                  /\ pc' = "games"
                  /\ UNCHANGED result
             ELSE /\ result' = r.res
                  /\ pc' = "done"
                  /\ UNCHANGED games
    /\ UNCHANGED <<config, settings, directories, todo, game_id, keys, builder>>
    /\ UNCHANGED <<qvars, lvars>>

\* parse_config, line 499
ReturnGames ==
    /\ pc = "games"
    /\ todo = <<>>
    /\ result' = Ok(games)
    /\ pc' = "done"
    /\ UNCHANGED <<config, settings, directories, todo, games, game_id, keys,
                   builder, built>>
    /\ UNCHANGED <<qvars, lvars>>

Next ==
    \/ ParseConfig
    \/ NextGame
    \/ ParseCmd
    \/ ParseDir
    \/ ParseDirPrefix
    \/ ParseDosboxConf
    \/ ParseEnv
    \/ ParseFpsLimit
    \/ ParseInstalled
    \/ ParseName
    \/ ParseScummvmId
    \/ ParseTags
    \/ ParseUseGamescope
    \/ ParseUseMangohud
    \/ ParseUseVk
    \/ ParseWineExe
    \/ RejectOption
    \/ BuildGame
    \/ ReturnGames

Spec == CInit /\ [][Next]_vars

(***************************************************************************)
(* The tag selection specification: the inputs are drawn, then one of the  *)
(* two functions is applied.                                               *)
(***************************************************************************)
QAlphabet == {"a", "b", "!", ","}

QueryLists ==
    {<<>>}
    \cup {<<q>> : q \in StringsUpTo(QAlphabet, MaxLen)}
    \cup {<<p, q>> : p, q \in StringsUpTo(QAlphabet, MaxPairLen)}

QTagLists ==
    {<<>>, << <<"a">> >>, << <<"b">> >>, << <<"a">>, <<"b">> >>,
     << <<"b">>, <<"a">>, <<"b">> >>, << <<>>, <<"!", "a">> >>}

QIds == {<<"a">>, <<"x">>}

\* a Game as the tests of main.rs construct it (test_any_tags_match)
QGame(id, tags) ==
    [id |-> id, name |-> <<"T">>, dir |-> NONE, command |-> <<id>>,
     env |-> <<>>, tags |-> tags, installed |-> TRUE]

QInit ==
    /\ q_args \in QueryLists
    /\ q_game \in {QGame(id, tags) : id \in QIds, tags \in QTagLists}
    /\ q_out = [op |-> "none"]
    /\ config = NONE
    /\ settings = NONE
    /\ directories = NONE
    /\ todo = <<>>
    /\ games = EmptyMap
    /\ game_id = NONE
    /\ keys = <<>>
    /\ builder = NONE
    /\ built = NONE
    /\ result = NONE
    /\ pc = "idle"
    /\ LedgerIdle

\* TagGroup::parse(q).matches(tags) on the first query and the game's tags
CallMatches ==
    /\ q_out.op = "none"
    /\ Len(q_args) >= 1
    /\ q_out' = [op |-> "matches",
                 ok |-> TagGroupMatches(TagGroupParse(q_args[1]), q_game.tags)]
    /\ UNCHANGED <<q_game, q_args>>
    /\ UNCHANGED <<cvars, lvars>>

CallGameMatchesTags ==
    /\ q_out.op = "none"
    /\ q_out' = [op |-> "game_matches_tags",
                 ok |-> GameMatchesTags(q_game, q_args)]
    /\ UNCHANGED <<q_game, q_args>>
    /\ UNCHANGED <<cvars, lvars>>

QNext == CallMatches \/ CallGameMatchesTags

SpecTags == QInit /\ [][QNext]_vars

(***************************************************************************)
(* Integers of the ledger: u32 arithmetic on halves, and str::parse.       *)
(***************************************************************************)
\* u32::MAX
U32_MAX == [hi |-> HALF - 1, lo |-> HALF - 1]

\* u32::strict_add: the sum, or NONE where it would pass u32::MAX (a panic)
StrictAdd(a, b) ==
    LET lo == a.lo + b.lo
        hi == a.hi + b.hi + (lo \div HALF)
    IN IF hi >= HALF THEN NONE ELSE Some([hi |-> hi, lo |-> lo % HALF])

\* u32 / k and u32 % k for a divisor k below 2^15
DivU32(u, k) ==
    [hi |-> u.hi \div k, lo |-> ((u.hi % k) * HALF + u.lo) \div k]
RemU32(u, k) == ((u.hi % k) * HALF + u.lo) % k

IsDigit(c) == \E i \in 1..10 : DIGITS[i] = c
DigitValue(c) == (CHOOSE i \in 1..10 : DIGITS[i] = c) - 1

\* the digits of str::parse for an integer type: after an optional sign,
\* at least one character and digits only
DigitsOf(s, signs) ==
    LET body == IF s # <<>> /\ s[1] \in signs THEN Tail(s) ELSE s
    IN IF body # <<>> /\ \A i \in DOMAIN body : IsDigit(body[i])
       THEN Some(body) ELSE NONE

\* str::parse::<u32>: NONE is Err (no digits, another character, too large)
ParseU32(s) ==
    LET RECURSIVE val(_, _)
        val(ds, acc) ==
            IF ds = <<>> THEN Some(acc)
            ELSE LET lo == acc.lo * 10 + DigitValue(Head(ds))
                     hi == acc.hi * 10 + (lo \div HALF)
                 IN IF hi >= HALF THEN NONE
                    ELSE val(Tail(ds), [hi |-> hi, lo |-> lo % HALF])
        ds0 == DigitsOf(s, {"+"})
    IN IF ds0.t = "None" THEN NONE ELSE val(ds0.v, U32(0))

\* the value of a string of digits when it is at most max, else NONE
BoundedValue(ds, max) ==
    LET RECURSIVE val(_, _)
        val(rest, acc) ==
            IF rest = <<>> THEN Some(acc)
            ELSE IF acc > (max - DigitValue(Head(rest))) \div 10 THEN NONE
            ELSE val(Tail(rest), acc * 10 + DigitValue(Head(rest)))
    IN val(ds, 0)

\* str::parse::<u8>
ParseU8(s) ==
    LET ds == DigitsOf(s, {"+"})
    IN IF ds.t = "None" THEN NONE ELSE BoundedValue(ds.v, 255)

\* the value of a minus sign and a string of digits when it is at least
\* i32::MIN, else NONE; the digits are subtracted one by one, as
\* str::parse does for a negative number
NegativeValue(ds) ==
    LET RECURSIVE val(_, _)
        val(rest, acc) ==
            IF rest = <<>> THEN Some(acc)
            ELSE IF acc < ((0 - 2147483647) - 1 + DigitValue(Head(rest)) + 9)
                              \div 10
            THEN NONE
            ELSE val(Tail(rest), acc * 10 - DigitValue(Head(rest)))
    IN val(ds, 0)

\* str::parse::<i32>
ParseI32(s) ==
    LET ds == DigitsOf(s, {"+", "-"})
        neg == s # <<>> /\ s[1] = "-"
    IN IF ds.t = "None" THEN NONE
       ELSE IF neg THEN NegativeValue(ds.v)
       ELSE BoundedValue(ds.v, 2147483647)

(***************************************************************************)
(* stats.rs: GameStats.  An OffsetDateTime is its calendar fields in its   *)
(* own offset and the offset in seconds; sub-second parts are not kept.    *)
(***************************************************************************)
S_TAB == "\t"

DateTime(year, month, day, hour, minute, second, offset) ==
    [year |-> year, month |-> month, day |-> day, hour |-> hour,
     minute |-> minute, second |-> second, offset |-> offset]

\* GameStats::new
GameStatsNew(id, play_time_seconds, last_played_time) ==
    [id |-> id, play_time_seconds |-> play_time_seconds,
     last_played_time |-> last_played_time]

\* GameStats::add_time: NONE is the panic of strict_add
AddTime(stats, seconds) ==
    LET sum == StrictAdd(stats.play_time_seconds, seconds)
    IN IF sum.t = "None" THEN NONE
       ELSE Some([stats EXCEPT !.play_time_seconds = sum.v])

\* GameStats::update_last_played_time
UpdateLastPlayedTime(stats, date_time) ==
    [stats EXCEPT !.last_played_time = date_time]

\* a number written with at least width digits
Pad(digits, width) ==
    [i \in 1..(width - Len(digits)) |-> "0"] \o digits

\* [year]: four digits, a sign outside 0..9999
FormatYear(year) ==
    IF year < 0 THEN <<"-">> \o Pad(Dec(0 - year), 4)
    ELSE IF year > 9999 THEN <<"+">> \o Dec(year)
    ELSE Pad(Dec(year), 4)

\* TIMESTAMP_FORMAT applied to a date-time, in the date-time's own offset
FormatTimestamp(dt) ==
    FormatYear(dt.year) \o <<"-">> \o Pad(Dec(dt.month), 2) \o <<"-">>
    \o Pad(Dec(dt.day), 2) \o <<" ">> \o Pad(Dec(dt.hour), 2) \o <<":">>
    \o Pad(Dec(dt.minute), 2) \o <<":">> \o Pad(Dec(dt.second), 2)

\* GameStats::format_last_played_time
FormatLastPlayedTime(stats) == FormatTimestamp(stats.last_played_time)

\* GameStats::to_tsv
ToTsv(stats) ==
    stats.id \o <<S_TAB>> \o DecU32(stats.play_time_seconds) \o <<S_TAB>>
    \o FormatTimestamp(stats.last_played_time)

IsLeapYear(year) == year % 4 = 0 /\ (year % 100 # 0 \/ year % 400 = 0)

DaysInMonth(year, month) ==
    IF month = 2 THEN (IF IsLeapYear(year) THEN 29 ELSE 28)
    ELSE IF month \in {4, 6, 9, 11} THEN 30 ELSE 31

\* Month::January.nth_next(n)
JanuaryNthNext(n) == (n % 12) + 1

\* the date and time fields of from_tsv once every piece is there: the
\* first expect that fails, or the GameStats
FromTsvFields(parts, date_parts, time_parts, local, checks) ==
    LET year == ParseI32(date_parts[1])
        month == ParseU8(date_parts[2])
        day == ParseU8(date_parts[3])
        hour == ParseU8(time_parts[1])
        minute == ParseU8(time_parts[2])
        second == ParseU8(time_parts[3])
        \* month - 1 on a u8
        n == IF month.v = 0 THEN 255 ELSE month.v - 1
        m == JanuaryNthNext(n)
        play_time == ParseU32(parts[2])
    IN IF year.t = "None" THEN Panic("Bad year")
       ELSE IF month.t = "None" THEN Panic("Bad month")
       ELSE IF day.t = "None" THEN Panic("Bad day")
       ELSE IF hour.t = "None" THEN Panic("Bad hour")
       ELSE IF minute.t = "None" THEN Panic("Bad minute")
       ELSE IF second.t = "None" THEN Panic("Bad second")
       ELSE IF month.v = 0 /\ checks THEN Panic("attempt to subtract with overflow")
       ELSE IF ~(/\ year.v >= -9999 /\ year.v <= 9999
                 /\ day.v >= 1 /\ day.v <= DaysInMonth(year.v, m))
       THEN Panic("Bad date")
       ELSE IF ~(hour.v < 24 /\ minute.v < 60 /\ second.v < 60)
       THEN Panic("Bad time")
       ELSE IF local.t = "None" THEN Panic("Bad offset")
       ELSE IF play_time.t = "None" THEN Panic("Bad play time")
       ELSE Ok(GameStatsNew(parts[1], play_time.v,
                            DateTime(year.v, m, day.v, hour.v, minute.v,
                                     second.v, local.v)))

\* from_tsv after the splits; indexing past the end of a Vec panics
FromTsvParts(parts, timestamp_parts, date_parts, time_parts, local, checks) ==
    IF ParseI32(date_parts[1]).t = "None" THEN Panic("Bad year")
    ELSE IF Len(date_parts) < 2 THEN Panic("index out of bounds")
    ELSE IF ParseU8(date_parts[2]).t = "None" THEN Panic("Bad month")
    ELSE IF Len(date_parts) < 3 THEN Panic("index out of bounds")
    ELSE IF ParseU8(date_parts[3]).t = "None" THEN Panic("Bad day")
    ELSE IF Len(timestamp_parts) < 2 THEN Panic("index out of bounds")
    ELSE IF ParseU8(time_parts[1]).t = "None" THEN Panic("Bad hour")
    ELSE IF Len(time_parts) < 2 THEN Panic("index out of bounds")
    ELSE IF ParseU8(time_parts[2]).t = "None" THEN Panic("Bad minute")
    ELSE IF Len(time_parts) < 3 THEN Panic("index out of bounds")
    ELSE FromTsvFields(parts, date_parts, time_parts, local, checks)

\* GameStats::from_tsv, with the local offset of the moment and the
\* build's overflow checks
FromTsv(line, local, checks) ==
    Bind(Split(line, S_TAB),
         LAMBDA parts :
             IF Len(parts) < 3 THEN Panic("index out of bounds")
             ELSE Bind(Split(parts[3], " "),
                       LAMBDA timestamp_parts :
                           Bind(<<Split(timestamp_parts[1], "-"),
                                  IF Len(timestamp_parts) < 2 THEN <<>>
                                  ELSE Split(timestamp_parts[2], ":")>>,
                                LAMBDA dt :
                                    FromTsvParts(parts, timestamp_parts, dt[1],
                                                 dt[2], local, checks))))

\* a mutant of FormatPlayTime: the minutes are printed after an hour even
\* when they are zero
FormatPlayTime_ZeroMinutes(stats) ==
    LET pt == stats.play_time_seconds
        hours == DivU32(pt, 3600)
        rest == RemU32(pt, 3600)
        minutes == rest \div 60
        seconds == rest - minutes * 60
    IN (IF hours # U32(0) THEN DecU32(hours) \o <<"h">> ELSE <<>>)
       \o (IF minutes > 0 \/ hours # U32(0) THEN Dec(minutes) \o <<"m">> ELSE <<>>)
       \o (IF seconds > 0 THEN Dec(seconds) \o <<"s">> ELSE <<>>)

\* GameStats::format_play_time
FormatPlayTime(stats) ==
    LET pt == stats.play_time_seconds
        hours == DivU32(pt, 3600)
        rest == RemU32(pt, 3600)
        minutes == rest \div 60
        seconds == rest - minutes * 60
    IN (IF hours # U32(0) THEN DecU32(hours) \o <<"h">> ELSE <<>>)
       \o (IF minutes > 0 THEN Dec(minutes) \o <<"m">> ELSE <<>>)
       \o (IF seconds > 0 THEN Dec(seconds) \o <<"s">> ELSE <<>>)

(***************************************************************************)
(* game.rs and main.rs: the catalog of games.                              *)
(***************************************************************************)
S_sep == <<" ", "-", " ">>

\* Game::format
GameFormat(game) == game.id \o S_sep \o game.name

\* Game::is_installed
IsInstalled(game) == game.installed

\* Games::find
GamesFind(gs, id) == MapGet(gs, id)

\* a mutant of ListGames: the games that are not installed are listed too
ListGames_NotInstalledToo(gs, args) ==
    LET game_ids == SortedStrings(DOMAIN gs)
        kept == SelectSeq(game_ids,
                    LAMBDA id : args = <<>> \/ GameMatchesTags(gs[id], args))
    IN [i \in 1..Len(kept) |-> GameFormat(gs[kept[i]])]

\* list_games
ListGames(gs, args) ==
    LET game_ids == SortedStrings(DOMAIN gs)
        kept == SelectSeq(game_ids,
                    LAMBDA id : /\ IsInstalled(GamesFind(gs, id).v)
                                /\ (args = <<>>
                                      \/ GameMatchesTags(GamesFind(gs, id).v, args)))
    IN [i \in 1..Len(kept) |-> GameFormat(GamesFind(gs, kept[i]).v)]

\* Games::random, matching_games: the games random_range draws from
MatchingGames(gs, args) ==
    {gs[id] : id \in {k \in DOMAIN gs :
                          /\ IsInstalled(gs[k])
                          /\ (args = <<>> \/ GameMatchesTags(gs[k], args))}}

\* Games::random: any of the matching games; random_range panics on the
\* empty range 0..0
GamesRandom(gs, args) ==
    IF MatchingGames(gs, args) = {}
    THEN {Panic("cannot sample empty range")}
    ELSE {Ok(g) : g \in MatchingGames(gs, args)}

(***************************************************************************)
(* game.rs: Game::run.  The outcome of set_current_dir and of              *)
(* Command::status is the environment's: chdir tells whether the directory *)
(* can be entered, status is SpawnError when the process cannot be         *)
(* started, Signalled when it ends without an exit code, or Exited(code).  *)
(***************************************************************************)
EXIT_SUCCESS == 0

SpawnError == [t |-> "error"]
Signalled == [t |-> "signal"]
Exited(code) == [t |-> "code", v |-> code]

NoGameId == [kind |-> "NoGameId"]
CouldNotChangeDirectory(dir) == [kind |-> "CouldNotChangeDirectory", dir |-> dir]
NoSuchGame(id) == [kind |-> "NoSuchGame", id |-> id]
\* the payload is the Command whose Debug text the error carries
CommandReturnedFailure(cmd) == [kind |-> "CommandReturnedFailure", cmd |-> cmd]
ExecutionFailed == [kind |-> "ExecutionFailed"]
NotInstalled == [kind |-> "NotInstalled"]
CouldNotWriteStats == [kind |-> "CouldNotWriteStats"]

\* Game::run: the Result
GameRunResult(game, chdir, status) ==
    IF ~game.installed THEN Err(NotInstalled)
    ELSE IF game.dir.t = "Some" /\ ~chdir
    THEN Err(CouldNotChangeDirectory(game.dir.v))
    ELSE IF status.t = "error" THEN Err(ExecutionFailed)
    ELSE IF status.t = "code" /\ status.v # EXIT_SUCCESS
    THEN Err(CommandReturnedFailure(game.command))
    ELSE Ok(<<>>)

\* a mutant of GameRunEffects: the directory is entered before the
\* installed flag is looked at
GameRunEffects_ChdirFirst(game, chdir) ==
    (IF game.dir.t = "Some" THEN <<"chdir">> ELSE <<>>)
    \o (IF game.installed /\ (game.dir.t = "Some" => chdir)
        THEN <<"spawn">> ELSE <<>>)

\* Game::run: the calls it makes to the system, in order
GameRunEffects(game, chdir) ==
    IF ~game.installed THEN <<>>
    ELSE IF game.dir.t = "Some" /\ ~chdir THEN <<"chdir">>
    ELSE (IF game.dir.t = "Some" THEN <<"chdir">> ELSE <<>>) \o <<"spawn">>

(***************************************************************************)
(* main.rs: the ledger of play statistics.                                 *)
(***************************************************************************)
S_NL == "\n"
S_CR == "\r"

\* the elements of a set of numbers in increasing order
Ascending(S) ==
    LET RECURSIVE asc(_)
        asc(rest) ==
            IF rest = {} THEN <<>>
            ELSE Bind(CHOOSE i \in rest : \A j \in rest : i <= j,
                      LAMBDA least : <<least>> \o asc(rest \ {least}))
    IN asc(S)

\* the lines of content whose line feeds are at the positions ends
LinesAt(content, ends) ==
    LET count == Len(ends)
        start(k) == IF k = 1 THEN 1 ELSE ends[k - 1] + 1
        stop(k) == IF k > count THEN Len(content) ELSE ends[k] - 1
        piece(k) ==
            IF k <= count /\ stop(k) >= start(k) /\ content[stop(k)] = S_CR
            THEN SubSeq(content, start(k), stop(k) - 1)
            ELSE SubSeq(content, start(k), stop(k))
        n == IF count > 0 /\ ends[count] = Len(content) THEN count ELSE count + 1
    IN IF content = <<>> THEN <<>> ELSE [k \in 1..n |-> piece(k)]

\* str::lines: the pieces between line feeds, without the carriage return
\* before a line feed, and without an empty piece after the last line feed
Lines(content) ==
    Bind(Ascending({i \in DOMAIN content : content[i] = S_NL}),
         LAMBDA ends : LinesAt(content, ends))

\* the join("\n") of play_game and the push of the last line feed
JoinLines(lines) ==
    LET RECURSIVE join(_)
        join(k) == IF k = 0 THEN <<>>
                   ELSE IF k = 1 THEN lines[1]
                   ELSE join(k - 1) \o <<S_NL>> \o lines[k]
    IN join(Len(lines)) \o <<S_NL>>

\* a mutant of ReadStats: the file is never found
ReadStats_Missing(file) == NONE

\* read_stats: the content of the file, NONE when it cannot be read
ReadStats(file) == file

\* a mutant of UpdateParsed: the time of the last play is left as it was
UpdateParsed_KeepsTime(parsed, id, play_time, start_time) ==
    IF parsed.t = "Panic" THEN parsed
    ELSE IF parsed.v.id = id
    THEN Bind(AddTime(parsed.v, play_time),
              LAMBDA added :
                  IF added.t = "None"
                  THEN Panic("attempt to add with overflow")
                  ELSE Ok([stats |-> added.v, found |-> TRUE]))
    ELSE Ok([stats |-> parsed.v, found |-> FALSE])

\* the loop of play_game over one line of the ledger, from_tsv done: the
\* GameStats pushed to all_stats and whether the line was for the game, or
\* a panic
UpdateParsed(parsed, id, play_time, start_time) ==
    IF parsed.t = "Panic" THEN parsed
    ELSE IF parsed.v.id = id
    THEN Bind(AddTime(parsed.v, play_time),
              LAMBDA added :
                  IF added.t = "None"
                  THEN Panic("attempt to add with overflow")
                  ELSE Ok([stats |-> UpdateLastPlayedTime(added.v, start_time),
                           found |-> TRUE]))
    ELSE Ok([stats |-> parsed.v, found |-> FALSE])

UpdateLine(line, id, play_time, start_time, local, checks) ==
    Bind(FromTsv(line, local, checks),
         LAMBDA parsed : UpdateParsed(parsed, id, play_time, start_time))

\* the lines of the ledger that are not empty; none when read_stats fails
StatsLines(file) ==
    IF ReadStats(file).t = "Some"
    THEN SelectSeq(Lines(ReadStats(file).v), LAMBDA l : l # <<>>)
    ELSE <<>>

\* a mutant of WriteBack: a new record is pushed whether or not a line
\* was found
WriteBack_AlwaysPushes(upd, id, play_time, start_time) ==
    LET bad == {k \in DOMAIN upd : upd[k].t = "Panic"}
        all_stats == [k \in DOMAIN upd |-> upd[k].v.stats]
                     \o <<GameStatsNew(id, play_time, start_time)>>
    IN IF bad # {}
       THEN upd[CHOOSE k \in bad : \A j \in bad : k <= j]
       ELSE Ok(JoinLines([k \in DOMAIN all_stats |-> ToTsv(all_stats[k])]))

\* play_game, lines 302-318: the content written, from the outcome of the
\* loop on each line
WriteBack(upd, id, play_time, start_time) ==
    LET bad == {k \in DOMAIN upd : upd[k].t = "Panic"}
        found == \E k \in DOMAIN upd : upd[k].v.found
        all_stats == [k \in DOMAIN upd |-> upd[k].v.stats]
                     \o (IF found THEN <<>>
                         ELSE <<GameStatsNew(id, play_time, start_time)>>)
    IN IF bad # {}
       THEN upd[CHOOSE k \in bad : \A j \in bad : k <= j]
       ELSE Ok(JoinLines([k \in DOMAIN all_stats |-> ToTsv(all_stats[k])]))

\* play_game, lines 288-318: the new content of the ledger, or a panic
UpdatedStats(file, id, play_time, start_time, local, checks) ==
    LET RECURSIVE each(_, _)
        each(lines, k) ==
            IF k > Len(lines) THEN <<>>
            ELSE <<UpdateLine(lines[k], id, play_time, start_time, local, checks)>>
                 \o each(lines, k + 1)
    IN Bind(StatsLines(file),
            LAMBDA lines :
                Bind(each(lines, 1),
                     LAMBDA upd : WriteBack(upd, id, play_time, start_time)))

\* find_game_stats, from the outcome of from_tsv on each line
FirstOf(parsed, id) ==
    LET stop == {k \in DOMAIN parsed :
                    parsed[k].t = "Panic" \/ parsed[k].v.id = id}
    IN IF stop = {} THEN Ok(NONE)
       ELSE Bind(CHOOSE i \in stop : \A j \in stop : i <= j,
                 LAMBDA k : IF parsed[k].t = "Panic" THEN parsed[k]
                            ELSE Ok(Some(parsed[k].v)))

\* find_game_stats: the first line of the game, NONE, or a panic on a line
\* before it
FindGameStats(file, id, local, checks) ==
    LET RECURSIVE each(_, _)
        each(lines, k) ==
            IF k > Len(lines) THEN <<>>
            ELSE <<FromTsv(lines[k], local, checks)>> \o each(lines, k + 1)
    IN Bind(StatsLines(file),
            LAMBDA lines : Bind(each(lines, 1), LAMBDA parsed : FirstOf(parsed, id)))

S_no_stats == <<"N", "o", " ", "s", "t", "a", "t", "s", " ", "f", "o", "u", "n", "d">>
S_statistics == <<" ", "S", "t", "a", "t", "i", "s", "t", "i", "c", "s">>
S_play_time == <<"P", "l", "a", "y", " ", "T", "i", "m", "e", ":", " ">>
S_last_played == <<"L", "a", "s", "t", " ", "P", "l", "a", "y", "e", "d", ":", " ">>

\* command_stats, lines 388-390: the three lines printed for a game
StatsReport(game, stats) ==
    <<game.name \o <<" ", "(">> \o game.id \o <<")">> \o S_statistics,
      S_play_time \o FormatPlayTime(stats),
      S_last_played \o FormatLastPlayedTime(stats)>>

(***************************************************************************)
(* Single operations applied on their own: the arguments are drawn, then   *)
(* the operation is applied once.                                          *)
(***************************************************************************)
\* the offsets the process may find itself in: UTC, UTC-5, UTC+1, or none
\* that the time crate can determine
LocalOffsets == {Some(0), Some(-18000), Some(3600), NONE}

TimeOffsets == {0, -18000, 3600}

\* date-times of whole seconds
DateTimes ==
    {DateTime(2025, 11, 3, 19, 7, 0, off) : off \in TimeOffsets}
    \cup {DateTime(987, 1, 2, 3, 4, 5, off) : off \in TimeOffsets}
    \cup {DateTime(2024, 2, 29, 23, 59, 59, off) : off \in TimeOffsets}

StatsIds == {<<"a">>, <<"t", "g">>, <<>>, <<"a", S_TAB, "b">>}

StatsValues ==
    {GameStatsNew(id, pt, dt) :
        id \in StatsIds, pt \in {U32(0), U32(5400), U32_MAX}, dt \in DateTimes}

\* play times: every total up to MaxSeconds, and some larger ones
PlayTimes == (0..MaxSeconds) \cup {86399, 86400, 360000, 2147483647}

\* a Game of the catalog
CatalogGame(id, tags, installed) ==
    [id |-> id, name |-> <<"N">> \o id, dir |-> NONE, command |-> <<id>>,
     env |-> EmptyMap, tags |-> tags, installed |-> installed]

CatalogIds == {<<"a">>, <<"b">>, <<"B">>}

\* the catalogs: every id is absent or maps to a Game of that id
Catalogs ==
    LET choices == {NONE} \cup {Some(CatalogGame(<<>>, tags, installed)) :
                                    tags \in {<<>>, << <<"t">> >>},
                                    installed \in BOOLEAN}
        picks == [CatalogIds -> choices]
    IN {[id \in {k \in CatalogIds : f[k].t = "Some"} |->
            [f[id].v EXCEPT !.id = id, !.name = <<"N">> \o id,
                            !.command = <<id>>]] : f \in picks}

SelectorLists ==
    {<<>>, << <<"t">> >>, << <<"!", "t">> >>, << <<"a">> >>,
     << <<"t">>, <<"b">> >>, << <<"z">> >>}

ListInputs ==
    {[op |-> "list_games", catalog |-> c, args |-> a] :
        c \in Catalogs, a \in SelectorLists}
RandomInputs ==
    {[op |-> "random", catalog |-> c, args |-> a] :
        c \in Catalogs, a \in SelectorLists}
RoundTripInputs == {[op |-> "round_trip", stats |-> st] : st \in StatsValues}
FormatInputs == {[op |-> "format_play_time", t |-> t] : t \in PlayTimes}

OpIdle ==
    /\ q_game = NONE
    /\ q_args = <<>>
    /\ q_out = [op |-> "idle"]
    /\ config = NONE
    /\ settings = NONE
    /\ directories = NONE
    /\ todo = <<>>
    /\ games = EmptyMap
    /\ game_id = NONE
    /\ keys = <<>>
    /\ builder = NONE
    /\ built = NONE
    /\ result = NONE
    /\ pc = "idle"
    /\ ledger = NONE
    /\ ledger0 = NONE
    /\ plays = 0
    /\ effects = <<>>
    /\ out = [op |-> "idle"]
    /\ sessions = <<>>

OInit ==
    /\ OpIdle
    /\ \/ /\ op_in \in RoundTripInputs
          /\ local_offset \in LocalOffsets
          /\ overflow_checks \in BOOLEAN
       \/ /\ op_in \in FormatInputs \cup ListInputs \cup RandomInputs
          /\ local_offset = Some(0)
          /\ overflow_checks = TRUE

\* what an operation leaves alone
OpFrame ==
    /\ UNCHANGED <<qvars, cvars>>
    /\ UNCHANGED <<ledger, ledger0, local_offset, overflow_checks, plays,
                   effects, op_in, sessions>>

\* GameStats::from_tsv(&stats.to_tsv())
RoundTrip ==
    /\ out.op = "idle"
    /\ op_in.op = "round_trip"
    /\ out' = [op |-> "round_trip",
               line |-> ToTsv(op_in.stats),
               res |-> FromTsv(ToTsv(op_in.stats), local_offset, overflow_checks)]
    /\ OpFrame

\* format_play_time on a GameStats of op_in.t seconds
CallFormatPlayTime ==
    /\ out.op = "idle"
    /\ op_in.op = "format_play_time"
    /\ out' = [op |-> "format_play_time",
               text |-> FormatPlayTime(
                            GameStatsNew(<<"a">>, U32(op_in.t),
                                         DateTime(2025, 11, 3, 19, 7, 0, 0)))]
    /\ OpFrame

\* list_games(games, args)
CallListGames ==
    /\ out.op = "idle"
    /\ op_in.op = "list_games"
    /\ out' = [op |-> "list_games", list |-> ListGames(op_in.catalog, op_in.args)]
    /\ OpFrame

\* games.random(args)
CallRandom ==
    /\ out.op = "idle"
    /\ op_in.op = "random"
    /\ \E r \in GamesRandom(op_in.catalog, op_in.args) :
          out' = [op |-> "random", res |-> r]
    /\ OpFrame

ONext == RoundTrip \/ CallFormatPlayTime \/ CallListGames \/ CallRandom

SpecOps == OInit /\ [][ONext]_vars

(***************************************************************************)
(* Playing: a configuration is compiled, then games are played and their   *)
(* statistics are looked up, against a ledger that persists.  No command   *)
(* holds a lock on the stats file: a command is a process that goes from   *)
(* one call to the system to the next, and every such call is a step.  In  *)
(* SpecPlay one process is given one command after another; in SpecRace    *)
(* two processes run side by side.                                         *)
(***************************************************************************)
A == <<"a">>
B == <<"b">>

PlainGame == (K_name :> VStr(N)) @@ (K_cmd :> VStr(<<"g">>))

S_slash_d == <<"/", "d">>

\* a game to play, and one that is not installed
DocOne ==
    K_games :> VTbl((A :> VTbl(PlainGame))
                    @@ (B :> VTbl(PlainGame @@ (K_installed :> VBool(FALSE))
                                  @@ (K_dir :> VStr(S_slash_d)))))

\* two games to play
DocTwo ==
    K_games :> VTbl((A :> VTbl(PlainGame @@ (K_dir :> VStr(S_slash_d))))
                    @@ (B :> VTbl(PlainGame @@ (K_installed :> VBool(TRUE)))))

\* documents that parse_config cannot compile
DocNoGames == K_settings :> VTbl(EmptyMap)
DocUnclosed ==
    K_games :> VTbl(A :> VTbl((K_name :> VStr(N)) @@ (K_cmd :> VStr(S_unclosed))))

T0 == DateTime(2025, 11, 3, 19, 7, 0, 0)
T1 == DateTime(2025, 11, 4, 8, 0, 0, 0)
T2 == DateTime(2026, 1, 1, 0, 0, 59, 0)

LedgerOf(stats) == Some(JoinLines([k \in DOMAIN stats |-> ToTsv(stats[k])]))

\* ledgers of well-formed lines
LedgerA == LedgerOf(<<GameStatsNew(A, U32(5400), T0)>>)
LedgerBA ==
    LedgerOf(<<GameStatsNew(B, U32(7), T0), GameStatsNew(A, U32(5400), T0)>>)
\* two lines of "a"
LedgerAA ==
    LedgerOf(<<GameStatsNew(A, U32(5400), T0), GameStatsNew(A, U32(60), T2)>>)
\* the total of "a" is 2^32 - 6
LedgerFull ==
    LedgerOf(<<GameStatsNew(<<"o", "l", "d">>, U32(0), T0),
               GameStatsNew(A, AsU32(-6), T0)>>)
\* a blank line, and a line of two fields
LedgerShort ==
    Some(ToTsv(GameStatsNew(B, U32(7), T0)) \o <<S_NL, S_NL>>
         \o <<"a", S_TAB, "5", S_NL>>)
\* a line whose month is 00
LedgerMonthZero ==
    Some(<<"b", S_TAB, "7", S_TAB>>
         \o <<"2", "0", "2", "5", "-", "0", "0", "-", "0", "3", " ",
              "0", "1", ":", "0", "2", ":", "0", "3", S_NL>>)

Setup(doc, file, local, checks) ==
    [doc |-> doc, file |-> file, local |-> local, checks |-> checks]

\* the configuration, the ledger, the local offset and whether the build
\* checks overflow, at the start
Setups ==
    {Setup(DocOne, f, Some(0), TRUE) :
        f \in {NONE, Some(<<>>), LedgerA, LedgerBA, LedgerAA, LedgerFull,
               LedgerShort, LedgerMonthZero}}
    \cup {Setup(DocTwo, f, Some(0), TRUE) : f \in {NONE, LedgerA, LedgerBA}}
    \cup {Setup(DocOne, LedgerMonthZero, Some(0), FALSE)}
    \cup {Setup(DocOne, f, l, TRUE) :
            f \in {NONE, LedgerA}, l \in {Some(-18000), NONE}}
    \cup {Setup(d, NONE, Some(0), TRUE) : d \in {DocNoGames, DocUnclosed}}

\* what fs::write meets: it opens the file, which empties it, and
\* write_all writes the text in one write or more.  The open fails and the
\* file stays as it was; or a write fails after `sent` characters of the
\* text went out, and the file holds those characters: none when the
\* first write fails at once.
WRITTEN == [t |-> "written"]
OPEN_FAILS == [t |-> "the open fails"]
WriteFails(sent) == [t |-> "the write fails", sent |-> sent]
WRITE_FAILS == WriteFails(0)

\* what the system does to one play: the directory change, the process,
\* the first reading of the clock, the seconds to the second reading, and
\* the write of the ledger.  The clock is not monotonic: the second reading
\* may be earlier than the first.
Scenario(chdir, status, start, d, write) ==
    [chdir |-> chdir, status |-> status, start |-> start, d |-> d, write |-> write]

Scenarios ==
    {Scenario(TRUE, Exited(0), T1, 10, WRITTEN),
     Scenario(TRUE, Exited(0), T2, 10, WRITTEN),
     Scenario(TRUE, Exited(0), T1, -5, WRITTEN),
     Scenario(TRUE, Exited(0), T1, 10, OPEN_FAILS),
     Scenario(TRUE, Exited(0), T1, 10, WRITE_FAILS),
     Scenario(TRUE, Exited(0), T1, 10, WriteFails(10)),
     Scenario(TRUE, Exited(0), T1, 10, WriteFails(30)),
     Scenario(TRUE, Exited(0), T1, 2700, WRITTEN),
     Scenario(TRUE, Signalled, T1, 10, WRITTEN),
     Scenario(TRUE, SpawnError, T1, 10, WRITTEN),
     Scenario(TRUE, Exited(1), T1, 10, WRITTEN),
     Scenario(TRUE, Exited(2), T1, 10, WRITTEN),
     Scenario(FALSE, Exited(0), T1, 10, WRITTEN)}

PlayArgs == {<<>>, <<A>>, <<B>>, <<<<"z">>>>}

\* the selectors of play-random, and what the system does to its play
RandomArgs == {<<>>, <<<<"z">>>>}
RandomScenarios ==
    {Scenario(TRUE, Exited(0), T1, 10, WRITTEN),
     Scenario(TRUE, Exited(1), T1, 10, WRITTEN)}

\* a process that has not been given a command.  Of a command under way
\* the record keeps the command and its arguments, the game, what the
\* system does to the play, what game.run() returned, the String that
\* read_to_string fills with its capacity now and at the start, the file
\* as it was when it was opened for reading and the processes that had
\* returned by then, the text to write and how much of it went out, the
\* calls made to the system, and what the command returned.
IdleSession ==
    [pc |-> "idle", cmd |-> "none", args |-> <<>>, game |-> NONE, sc |-> NONE,
     ran |-> NONE, held |-> NONE, cap |-> 0, start_cap |-> 0, before |-> NONE,
     after |-> {}, text |-> <<>>, sent |-> 0, calls |-> <<>>, res |-> NONE]

PInit ==
    /\ \E su \in Setups :
          /\ config = VTbl(su.doc)
          /\ ledger = su.file
          /\ local_offset = su.local
          /\ overflow_checks = su.checks
    /\ settings = NONE
    /\ directories = NONE
    /\ todo = <<>>
    /\ games = EmptyMap
    /\ game_id = NONE
    /\ keys = <<>>
    /\ builder = NONE
    /\ built = NONE
    /\ result = NONE
    /\ pc = "start"
    /\ q_game = NONE
    /\ q_args = <<>>
    /\ q_out = [op |-> "idle"]
    /\ ledger0 = ledger
    /\ plays = 0
    /\ effects = <<>>
    /\ op_in = [op |-> "idle"]
    /\ out = [op |-> "idle"]
    /\ sessions = <<IdleSession>>

\* main has the catalog: parse_config returned Ok
Compiled == pc = "done" /\ result.t = "Ok"

\* what a step of a command leaves alone
StepFrame ==
    /\ UNCHANGED <<ledger0, local_offset, overflow_checks>>
    /\ UNCHANGED <<qvars, cvars>>

\* the processes whose command has returned
Returned == {q \in DOMAIN sessions : sessions[q].pc = "done"}

\* the characters of a file from the place after the first n
FileFrom(file, n) == SubSeq(file.v, n + 1, Len(file.v))

\* a command of process p returns before it has touched the stats file
\* and before any game has run
Fails(p, cmd, args, res) ==
    /\ sessions' = [sessions EXCEPT
                       ![p] = [IdleSession EXCEPT !.pc = "done", !.cmd = cmd,
                                                  !.args = args, !.res = res]]
    /\ op_in' = [op |-> cmd, args |-> args]
    /\ out' = IF cmd = "stats" THEN [op |-> cmd, res |-> res]
              ELSE [op |-> cmd, ran |-> NONE, res |-> res]
    /\ effects' = <<>>
    /\ UNCHANGED <<ledger, plays>>

\* process p goes on to the stats file: no command has returned since
Proceeds(p, cmd, args, game, sc, ran, calls) ==
    /\ sessions' = [sessions EXCEPT
                       ![p] = [IdleSession EXCEPT
                                  !.pc = "open", !.cmd = cmd, !.args = args,
                                  !.game = game, !.sc = sc, !.ran = ran,
                                  !.calls = calls]]
    /\ op_in' = [op |-> "idle"]
    /\ out' = [op |-> "idle"]
    /\ effects' = <<>>
    /\ UNCHANGED <<ledger, plays>>

\* the command of process p returns res; s is the record of the process
\* at its last step
Returns(p, s, res) ==
    /\ sessions' = [sessions EXCEPT ![p] = [s EXCEPT !.pc = "done", !.res = res]]
    /\ op_in' = IF s.cmd = "stats" THEN [op |-> s.cmd, args |-> s.args]
                ELSE [op |-> s.cmd, args |-> s.args, sc |-> s.sc,
                      id |-> s.game.id, before |-> s.before]
    /\ out' = IF s.cmd = "stats" THEN [op |-> s.cmd, res |-> res]
              ELSE [op |-> s.cmd, ran |-> Some(s.ran), res |-> res]
    /\ effects' = s.calls

\* a mutant of PlayGame: the session is recorded whatever run returned
PlayGame_RecordsAnyway(p, cmd, args, game, sc) ==
    Proceeds(p, cmd, args, game, sc,
             GameRunResult(game, sc.chdir, sc.status),
             GameRunEffects(game, sc.chdir))

\* play_game, lines 270-272 and 324: game.run(), whose Err play_game
\* returns at once; after Ok the process turns to the stats file
PlayGame(p, cmd, args, game, sc) ==
    \E ran \in {GameRunResult(game, sc.chdir, sc.status)} :
       IF ran.t = "Ok"
       THEN Proceeds(p, cmd, args, game, sc, ran, GameRunEffects(game, sc.chdir))
       ELSE /\ sessions' = [sessions EXCEPT
                               ![p] = [IdleSession EXCEPT
                                          !.pc = "done", !.cmd = cmd,
                                          !.args = args, !.game = game,
                                          !.sc = sc, !.ran = ran, !.res = ran,
                                          !.calls = GameRunEffects(game, sc.chdir)]]
            /\ op_in' = [op |-> cmd, args |-> args, sc |-> sc, id |-> game.id]
            /\ out' = [op |-> cmd, ran |-> Some(ran), res |-> ran]
            /\ effects' = GameRunEffects(game, sc.chdir)
            /\ UNCHANGED <<ledger, plays>>

\* command_play in process p, to the return of game.run(): the game of
\* args[0] is looked up and played; scs is what the system may do to the
\* play
CommandPlay(p, args, scs) ==
    /\ Compiled
    /\ plays < MaxPlays
    /\ sessions[p].pc \in {"idle", "done"}
    /\ IF args = <<>> THEN Fails(p, "play", args, Err(NoGameId))
       ELSE IF GamesFind(result.v, args[1]).t = "None"
       THEN Fails(p, "play", args, Err(NoSuchGame(args[1])))
       ELSE \E sc \in scs :
               PlayGame(p, "play", args, GamesFind(result.v, args[1]).v, sc)
    /\ StepFrame

\* command_play_random in process p, to the return of game.run():
\* games.random(args), which panics when no installed game matches, then
\* play_game on the game drawn
CommandPlayRandom(p, args, scs) ==
    /\ Compiled
    /\ plays < MaxPlays
    /\ sessions[p].pc \in {"idle", "done"}
    /\ \E drawn \in GamesRandom(result.v, args) :
          IF drawn.t = "Panic" THEN Fails(p, "play-random", args, drawn)
          ELSE \E sc \in scs : PlayGame(p, "play-random", args, drawn.v, sc)
    /\ StepFrame

\* command_stats in process p with at most one id, to the call of
\* find_game_stats
CommandStats(p, args) ==
    /\ Compiled
    /\ sessions[p].pc \in {"idle", "done"}
    /\ IF args = <<>> THEN Fails(p, "stats", args, Err(NoGameId))
       ELSE IF GamesFind(result.v, args[1]).t = "None"
       THEN Fails(p, "stats", args, Err(NoSuchGame(args[1])))
       ELSE Proceeds(p, "stats", args, GamesFind(result.v, args[1]).v, NONE,
                     NONE, <<>>)
    /\ StepFrame

\* read_stats, fs::read_to_string: process p opens the stats file and
\* asks for its size, which is the capacity the String starts with.  When
\* there is no file read_stats returns Err and the lines are none.
OpenLedger(p) ==
    /\ sessions[p].pc = "open"
    /\ sessions' = [sessions EXCEPT
                       ![p].pc = IF ReadStats(ledger).t = "Some"
                                 THEN "reading" ELSE "update",
                       ![p].held = IF ReadStats(ledger).t = "Some"
                                   THEN Some(<<>>) ELSE NONE,
                       ![p].cap = IF ReadStats(ledger).t = "Some"
                                  THEN Len(ledger.v) ELSE 0,
                       ![p].start_cap = IF ReadStats(ledger).t = "Some"
                                        THEN Len(ledger.v) ELSE 0,
                       ![p].before = ledger,
                       ![p].after = Returned,
                       ![p].calls = @ \o <<"read">>]
    /\ UNCHANGED <<ledger, plays, effects, op_in, out>>
    /\ StepFrame

\* the capacity of a String of capacity cap that grows to hold need
Grown(cap, need) ==
    IF 2 * cap >= need /\ 2 * cap >= 8 THEN 2 * cap
    ELSE IF need >= 8 THEN need ELSE 8

\* one read of fs::read_to_string into the String s.held: a String that is
\* full and has the capacity it started with is probed with a read of 32
\* characters before it grows; a String that is full otherwise grows by 32
\* at least; then the read asks for the room that is left, and for no
\* more than the size of the file at the open plus 1024, rounded up to a
\* multiple of 8192.  The read returns what the file holds from the place
\* reached, up to what was asked.
ReadOnce(s, file) ==
    LET len == Len(s.held.v)
        probe == len = s.cap /\ s.cap = s.start_cap
        room == IF ~probe /\ len = s.cap THEN Grown(s.cap, s.cap + 32)
                ELSE s.cap
        max_read_size == ((s.start_cap + 1024 + 8191) \div 8192) * 8192
        asked == IF probe THEN 32
                 ELSE IF room - len < max_read_size THEN room - len
                 ELSE max_read_size
        upto == IF Len(file.v) < len + asked THEN Len(file.v) ELSE len + asked
        data == SubSeq(file.v, len + 1, upto)
    IN [data |-> data,
        cap |-> IF probe /\ data # <<>> THEN Grown(s.cap, len + Len(data))
                ELSE room]

\* read_stats, one read(2) of fs::read_to_string by process p; a read
\* that finds nothing ends read_to_string
ReadLedger(p) ==
    /\ sessions[p].pc = "reading"
    /\ \E r \in {ReadOnce(sessions[p], ledger)} :
          sessions' = [sessions EXCEPT
                          ![p].pc = IF r.data = <<>> THEN "update" ELSE "reading",
                          ![p].held = Some(@.v \o r.data),
                          ![p].cap = r.cap]
    /\ UNCHANGED <<ledger, plays, effects, op_in, out>>
    /\ StepFrame

\* play_game, lines 292-322 up to the opening of the file: process p
\* updates what it read, and fs::write opens the file, which empties it;
\* a panic in the update or a file that cannot be opened ends play_game
UpdateAndOpen(p) ==
    /\ sessions[p].pc = "update"
    /\ sessions[p].cmd \in {"play", "play-random"}
    /\ \E updated \in {UpdatedStats(sessions[p].held, sessions[p].game.id,
                                    AsU32(sessions[p].sc.d), sessions[p].sc.start,
                                    local_offset, overflow_checks)} :
          IF updated.t = "Panic"
          THEN /\ Returns(p, sessions[p], updated)
               /\ UNCHANGED <<ledger, plays>>
          ELSE IF sessions[p].sc.write = OPEN_FAILS
          THEN /\ Returns(p, [sessions[p] EXCEPT !.calls = @ \o <<"write">>],
                          Err(CouldNotWriteStats))
               /\ UNCHANGED <<ledger, plays>>
          ELSE /\ sessions' = [sessions EXCEPT ![p].pc = "write",
                                               ![p].text = updated.v,
                                               ![p].calls = @ \o <<"write">>]
               /\ ledger' = Some(<<>>)
               /\ plays' = plays + 1
               /\ UNCHANGED <<effects, op_in, out>>
    /\ StepFrame

\* the file after a write of text at its start: the text lies over what
\* was there, and what lay beyond the text stays
WrittenOver(file, text) == Some(text \o FileFrom(file, Len(text)))

\* play_game, lines 319-325, one write(2) of fs::write by process p: the
\* whole text goes out and play_game returns Ok; or the first characters
\* go out; or the write fails and play_game returns CouldNotWriteStats
WriteLedger(p) ==
    /\ sessions[p].pc = "write"
    /\ IF sessions[p].sc.write = WRITTEN
          \/ (sessions[p].sent = 0
              /\ sessions[p].sc.write.sent >= Len(sessions[p].text))
       THEN /\ ledger' = WrittenOver(ledger, sessions[p].text)
            /\ Returns(p, [sessions[p] EXCEPT !.sent = Len(sessions[p].text)],
                       Ok(<<>>))
       ELSE IF sessions[p].sent < sessions[p].sc.write.sent
       THEN /\ ledger' = WrittenOver(ledger,
                             SubSeq(sessions[p].text, 1,
                                    sessions[p].sc.write.sent))
            /\ sessions' = [sessions EXCEPT
                               ![p].sent = sessions[p].sc.write.sent]
            /\ UNCHANGED <<effects, op_in, out>>
       ELSE /\ Returns(p, sessions[p], Err(CouldNotWriteStats))
            /\ UNCHANGED ledger
    /\ UNCHANGED plays
    /\ StepFrame

\* command_stats, lines 384-396, after read_stats in find_game_stats: the
\* lines process p prints.  With one id count never exceeds 1, so neither
\* the blank line nor the total of several ids is printed.
PrintStats(p) ==
    /\ sessions[p].pc = "update"
    /\ sessions[p].cmd = "stats"
    /\ \E found \in {FindGameStats(sessions[p].held, sessions[p].game.id,
                                   local_offset, overflow_checks)} :
          Returns(p, sessions[p],
                  IF found.t = "Panic" THEN found
                  ELSE IF found.v.t = "None" THEN Ok(<<S_no_stats>>)
                  ELSE Ok(StatsReport(sessions[p].game, found.v.v)))
    /\ UNCHANGED <<ledger, plays>>
    /\ StepFrame

\* the commands one after another: the process is given its next command
\* when the last has returned
PNext ==
    \/ ParseConfig
    \/ NextGame
    \/ ParseCmd
    \/ ParseDir
    \/ ParseInstalled
    \/ ParseName
    \/ BuildGame
    \/ ReturnGames
    \/ \E p \in DOMAIN sessions : \E args \in PlayArgs :
          CommandPlay(p, args, Scenarios)
    \/ \E p \in DOMAIN sessions : \E args \in RandomArgs :
          CommandPlayRandom(p, args, RandomScenarios)
    \/ \E p \in DOMAIN sessions : \E args \in PlayArgs : CommandStats(p, args)
    \/ \E p \in DOMAIN sessions : OpenLedger(p)
    \/ \E p \in DOMAIN sessions : ReadLedger(p)
    \/ \E p \in DOMAIN sessions : UpdateAndOpen(p)
    \/ \E p \in DOMAIN sessions : WriteLedger(p)
    \/ \E p \in DOMAIN sessions : PrintStats(p)

SpecPlay == PInit /\ [][PNext]_vars

(***************************************************************************)
(* main.rs: parse_game_config as a function of one table, with the order   *)
(* in which the loop visits the keys of the table as an argument.          *)
(***************************************************************************)
\* option_parsers: the handler registered for a key, applied
OptionParser(key, b, game_config) ==
    CASE key = K_cmd -> ParseCmdOp(b, game_config)
      [] key = K_dir -> ParseDirOp(b, game_config)
      [] key = K_dir_prefix -> ParseDirPrefixOp(b, game_config)
      [] key = K_dosbox_config -> ParseDosboxConfOp(b, game_config)
      [] key = K_env -> ParseEnvOp(b, game_config)
      [] key = K_fps_limit -> ParseFpsLimitOp(b, game_config)
      [] key = K_installed -> ParseInstalledOp(b, game_config)
      [] key = K_name -> ParseNameOp(b, game_config)
      [] key = K_scummvm_id -> ParseScummvmIdOp(b, game_config)
      [] key = K_tags -> ParseTagsOp(b, game_config)
      [] key = K_use_gamescope -> ParseUseGamescopeOp(b, game_config)
      [] key = K_use_mangohud -> ParseUseMangohudOp(b, game_config)
      [] key = K_use_vk -> ParseUseVkOp(b, game_config)
      [] key = K_wine_exe -> ParseWineExeOp(b, game_config)

\* the loop of parse_game_config over the keys in the order given: the
\* builder after the last key, or the error or panic that ends the loop
RECURSIVE ApplyOptions(_, _, _)
ApplyOptions(b, order, game_config) ==
    IF order = <<>> THEN [t |-> "Builder", b |-> b]
    ELSE IF Head(order) \notin OptionKeys
    THEN Err(UnrecognizedOption(Head(order)))
    ELSE Bind(OptionParser(Head(order), b, game_config),
              LAMBDA r : IF r.ok
                         THEN ApplyOptions(r.b, Tail(order), game_config)
                         ELSE Panic(r.msg))

\* parse_game_config with the keys visited in the order given
ParseGameConfigIn(order, id, game_config, dirs, stg) ==
    Bind(ApplyOptions(GameBuilderNew(id), order, game_config),
         LAMBDA r : IF r.t = "Builder" THEN Build(r.b, dirs, stg).res ELSE r)

\* parse_game_config: Table::keys gives the keys in ascending order
ParseGameConfig(id, game_config, dirs, stg) ==
    ParseGameConfigIn(SortedStrings(DOMAIN game_config), id, game_config,
                      dirs, stg)

(***************************************************************************)
(* One table compiled on its own: the table and the way it is compiled are *)
(* drawn, then parse_game_config is applied.                               *)
(***************************************************************************)
\* the orders in which the elements of S can be visited
Orders(S) ==
    {o \in [1..Cardinality(S) -> S] :
        \A i, j \in DOMAIN o : i # j => o[i] # o[j]}

\* the directories table and the Settings the tables are compiled with
KeyDirectories == (S_k :> VStr(S_p)) @@ (S_z :> VStr(<<"/", "q">>))
KeySettings ==
    {[width |-> U32(0), height |-> U32(0), use_gamescope |-> FALSE],
     [width |-> U32(DEFAULT_WIDTH), height |-> U32(DEFAULT_HEIGHT),
      use_gamescope |-> TRUE]}

\* tables of four and five keys
WiderTables ==
    {x @@ y @@ t :
        x \in {K_use_mangohud :> VStr(<<"y", "e", "s">>),
               K_use_mangohud :> VBool(TRUE),
               K_zzz :> VInt(1)},
        y \in {K_cmd :> VStr(<<"g">>), K_cmd :> VStr(S_unclosed),
               K_fps_limit :> S_60},
        t \in {(K_name :> VStr(N)) @@ (K_wine_exe :> VStr(<<"g">>))}}
    \cup {(K_name :> VStr(N)) @@ (K_cmd :> VStr(<<"g">>))
          @@ (K_dosbox_config :> VStr(<<"c">>))
          @@ (K_scummvm_id :> VStr(<<"s">>))
          @@ (K_wine_exe :> VStr(<<"g">>))}

OrderInputs ==
    UNION {{[op |-> "order", table |-> t, order |-> o, stg |-> stg] :
                o \in Orders(DOMAIN t), stg \in KeySettings} :
           t \in TablesC \cup WiderTables}

\* a value of the wrong shape for every key of option_parsers
WrongShapes ==
    {K_cmd :> VInt(3), K_dir :> VInt(3), K_dir_prefix :> VInt(3),
     K_dosbox_config :> VBool(TRUE), K_env :> VStr(<<"e">>),
     K_fps_limit :> VStr(<<"6", "0">>), K_installed :> VStr(<<"n", "o">>),
     K_name :> VInt(3), K_scummvm_id :> VInt(3), K_tags :> VStr(<<"t">>),
     K_tags :> VInt(3), K_use_gamescope :> VInt(1),
     K_use_mangohud :> VStr(<<"y", "e", "s">>), K_use_vk :> VStr(<<"n", "o">>),
     K_wine_exe :> VInt(3)}

\* the tables a key is added to
RestTables ==
    PlainTables
    \cup {t @@ (K_fps_limit :> S_60) @@ (K_dir :> VStr(S_d)) : t \in PlainTables}

\* the table without the key
Without(table, key) == [k \in (DOMAIN table) \ {key} |-> table[k]]

ShapeInputs ==
    {[op |-> "shape", key |-> CHOOSE k \in DOMAIN x : TRUE, table |-> x @@ t,
      stg |-> stg] :
        x \in WrongShapes, t \in RestTables, stg \in KeySettings}

\* two values of the right shape for every key of option_parsers
RightShapes ==
    {[key |-> K_cmd, first |-> VStr(<<"g">>), second |-> VStr(<<"h">>)],
     [key |-> K_dir, first |-> VStr(S_d), second |-> VStr(<<"e">>)],
     [key |-> K_dir_prefix, first |-> VStr(S_k), second |-> VStr(S_z)],
     [key |-> K_dosbox_config, first |-> VStr(<<"c">>), second |-> VStr(S_d)],
     [key |-> K_env, first |-> VTbl(<<"A">> :> VStr(<<"1">>)),
      second |-> VTbl(EmptyMap)],
     [key |-> K_fps_limit, first |-> S_60, second |-> VInt(30)],
     [key |-> K_installed, first |-> VBool(TRUE), second |-> VBool(FALSE)],
     [key |-> K_name, first |-> VStr(N), second |-> VStr(<<"M">>)],
     [key |-> K_scummvm_id, first |-> VStr(<<"s">>), second |-> VStr(<<"t">>)],
     [key |-> K_tags, first |-> VArr(<< VStr(<<"t">>) >>), second |-> VArr(<<>>)],
     [key |-> K_use_gamescope, first |-> VBool(TRUE), second |-> VBool(FALSE)],
     [key |-> K_use_mangohud, first |-> VBool(TRUE), second |-> VBool(FALSE)],
     [key |-> K_use_vk, first |-> VBool(TRUE), second |-> VBool(FALSE)],
     [key |-> K_wine_exe, first |-> VStr(<<"g">>), second |-> VStr(<<"h">>)]}

\* a key, two values for it, and everything else
VaryInputs ==
    {[op |-> "vary", key |-> x.key, first |-> x.first, second |-> x.second,
      rest |-> Without(t, x.key), stg |-> stg] :
        x \in RightShapes, t \in RestTables, stg \in KeySettings}

\* parse_game_config on the rest of the table with the key set to value
CompileWith(input, value) ==
    ParseGameConfig(G, (input.key :> value) @@ input.rest, KeyDirectories,
                    input.stg)

KInit ==
    /\ OpIdle
    /\ op_in \in OrderInputs \cup ShapeInputs \cup VaryInputs
    /\ local_offset = Some(0)
    /\ overflow_checks = TRUE

\* parse_game_config on op_in.table, its keys visited in op_in.order, and
\* in ascending order
CompileInOrder ==
    /\ out.op = "idle"
    /\ op_in.op = "order"
    /\ out' = [op |-> "order",
               res |-> ParseGameConfigIn(op_in.order, G, op_in.table,
                                         KeyDirectories, op_in.stg),
               ascending |-> ParseGameConfig(G, op_in.table, KeyDirectories,
                                             op_in.stg)]
    /\ OpFrame

\* parse_game_config on op_in.table, and on the same table without
\* op_in.key
CompileWithout ==
    /\ out.op = "idle"
    /\ op_in.op = "shape"
    /\ out' = [op |-> "shape",
               res |-> ParseGameConfig(G, op_in.table, KeyDirectories,
                                       op_in.stg),
               removed |-> ParseGameConfig(G, Without(op_in.table, op_in.key),
                                           KeyDirectories, op_in.stg)]
    /\ OpFrame

\* parse_game_config on two tables that differ in the value of op_in.key
CompileBoth ==
    /\ out.op = "idle"
    /\ op_in.op = "vary"
    /\ out' = [op |-> "vary",
               first |-> CompileWith(op_in, op_in.first),
               second |-> CompileWith(op_in, op_in.second)]
    /\ OpFrame

KNext == CompileInOrder \/ CompileWithout \/ CompileBoth

SpecKeys == KInit /\ [][KNext]_vars

(***************************************************************************)
(* main.rs: two commands side by side, in two terminals.  The steps are    *)
(* those of SpecPlay, and the steps of the two processes interleave: a     *)
(* play may read the stats file before, between or after the calls with    *)
(* which the other process reads or writes it.                             *)
(***************************************************************************)
\* the catalog of the terminals: two games, both installed
RaceCatalog == (A :> CatalogGame(A, <<>>, TRUE)) @@ (B :> CatalogGame(B, <<>>, TRUE))

\* the games each terminal may play.  Where there are three terminals the
\* first plays "a" and the others "b".
RaceArgs(p) ==
    IF Len(sessions) = 2 THEN {<<A>>, <<B>>}
    ELSE IF p = 1 THEN {<<A>>} ELSE {<<B>>}

\* what the system does to the play of each terminal.  Where there are
\* three terminals the first play is long enough to make the total of "a"
\* one digit longer.
RaceScenarios(p) ==
    IF Len(sessions) = 3
    THEN IF p = 1 THEN {Scenario(TRUE, Exited(0), T2, 99999, WRITTEN)}
         ELSE IF p = 2 THEN {Scenario(TRUE, Exited(0), T2, 60, WRITTEN)}
         ELSE {Scenario(TRUE, Exited(0), T1, 10, WRITTEN)}
    ELSE IF p = 1
    THEN {Scenario(TRUE, Exited(0), T1, d, WRITTEN) : d \in {10, 2700}}
    ELSE {Scenario(TRUE, Exited(0), T2, 60, w) :
             w \in {WRITTEN, OPEN_FAILS, WRITE_FAILS, WriteFails(10)}}

\* one line, of "b"
LedgerB == LedgerOf(<<GameStatsNew(B, U32(7), T0)>>)

RaceLedgers == {NONE, Some(<<>>), LedgerA, LedgerB, LedgerBA, LedgerFull}

RInit ==
    /\ q_game = NONE
    /\ q_args = <<>>
    /\ q_out = [op |-> "idle"]
    /\ config = NONE
    /\ settings = NONE
    /\ directories = NONE
    /\ todo = <<>>
    /\ games = EmptyMap
    /\ game_id = NONE
    /\ keys = <<>>
    /\ builder = NONE
    /\ built = NONE
    /\ result = Ok(RaceCatalog)
    /\ pc = "done"
    /\ \/ ledger \in RaceLedgers /\ sessions = <<IdleSession, IdleSession>>
       \/ ledger = LedgerA /\ sessions = <<IdleSession, IdleSession, IdleSession>>
    /\ ledger0 = ledger
    /\ local_offset = Some(0)
    /\ overflow_checks = TRUE
    /\ plays = 0
    /\ effects = <<>>
    /\ op_in = [op |-> "idle"]
    /\ out = [op |-> "idle"]

\* each terminal is given one command, at any time: a play, or in the
\* second of two terminals a look at the statistics; the steps of the
\* commands interleave
RNext ==
    \/ \E p \in DOMAIN sessions : \E args \in RaceArgs(p) :
          sessions[p].pc = "idle" /\ CommandPlay(p, args, RaceScenarios(p))
    \/ \E p \in DOMAIN sessions : \E args \in RaceArgs(p) :
          /\ sessions[p].pc = "idle"
          /\ p = 2
          /\ Len(sessions) = 2
          /\ CommandStats(p, args)
    \/ \E p \in DOMAIN sessions : OpenLedger(p)
    \/ \E p \in DOMAIN sessions : ReadLedger(p)
    \/ \E p \in DOMAIN sessions : UpdateAndOpen(p)
    \/ \E p \in DOMAIN sessions : WriteLedger(p)
    \/ \E p \in DOMAIN sessions : PrintStats(p)

SpecRace == RInit /\ [][RNext]_vars

(***************************************************************************)
(* Claims about tag selection.                                             *)
(***************************************************************************)
\* the literals of q by position: a literal starts at 1 and after each comma
SegStarts(q) == {1} \cup {i + 1 : i \in {j \in 1..Len(q) : q[j] = ","}}

SegEnd(q, s) ==
    IF \E j \in s..Len(q) : q[j] = ","
    THEN (CHOOSE j \in s..Len(q) :
              q[j] = "," /\ \A k \in s..(j - 1) : q[k] # ",") - 1
    ELSE Len(q)

LiteralSatisfied(q, s, S) ==
    LET lit == SubSeq(q, s, SegEnd(q, s))
    IN IF Len(lit) > 0 /\ lit[1] = "!"
       THEN SubSeq(lit, 2, Len(lit)) \notin S
       ELSE lit \in S

QuerySatisfied(q, S) == \A s \in SegStarts(q) : LiteralSatisfied(q, s, S)

QTagSet == {q_game.tags[i] : i \in DOMAIN q_game.tags}

Q_a_not_b == <<"a", ",", "!", "b">>

\* C1: TagGroup::parse(q).matches(S) is true iff every comma-separated
\* literal of q is satisfied: a literal without a leading '!' iff its name
\* is in S, a literal '!t' iff t is not in S; so "a,!b" matches {a} and
\* matches neither {a,b} nor {}.
C1_MatchesIsConjunction ==
    q_out.op = "matches" =>
        /\ q_out.ok = QuerySatisfied(q_args[1], QTagSet)
        /\ q_args[1] = Q_a_not_b =>
              q_out.ok = (<<"a">> \in QTagSet /\ <<"b">> \notin QTagSet)

C1_Witness ==
    /\ q_out.op = "matches"
    /\ q_args[1] = Q_a_not_b
    /\ QTagSet = {<<"a">>}
    /\ q_out.ok

\* C2: game_matches_tags(game, queries) is true iff at least one query of
\* the list, parsed as a TagGroup, matches the game's tag set or the
\* singleton {game.id}; a game "x" without tags is selected by ["x"]; a
\* list of several queries is a disjunction; one query "t1,t2" needs both.
C2_SelectionIsDisjunction ==
    q_out.op = "game_matches_tags" =>
        /\ q_out.ok = (\E i \in DOMAIN q_args :
                          \/ QuerySatisfied(q_args[i], QTagSet)
                          \/ QuerySatisfied(q_args[i], {q_game.id}))
        /\ (q_args = <<q_game.id>> /\ q_game.tags = <<>>) => q_out.ok
        /\ (q_args = << <<"a", ",", "b">> >> /\ q_game.id = <<"x">>) =>
              q_out.ok = ({<<"a">>, <<"b">>} \subseteq QTagSet)

C2_Witness ==
    /\ q_out.op = "game_matches_tags"
    /\ q_args = << <<"b">>, <<"a">> >>
    /\ q_game.tags = <<>>
    /\ q_game.id = <<"a">>
    /\ q_out.ok

(***************************************************************************)
(* Claims about GameBuilder::build and parse_game_config.  built holds     *)
(* the builder the last build consumed, its Result and its use_mangohud.   *)
(***************************************************************************)
HasBuilt == built.t = "Some"
BuiltOk == HasBuilt /\ built.v.res.t = "Ok"
BuiltErr == HasBuilt /\ built.v.res.t = "Err"
BuiltGame == built.v.res.v
BaseCommand == built.v.builder.command
Overlay == built.v.use_mangohud.v

\* the table of the game the last build was for
BuiltTable == config.v[K_games].v[built.v.builder.id].v

RequiredFieldsSet == built.v.builder.name.t = "Some" /\ BaseCommand # <<>>

\* C3: build fails with MissingName(id) whenever no name was set, otherwise
\* with MissingCommand(id) whenever the base command is empty; the id is
\* the game's; with both missing the error is MissingName; both come before
\* the resolution of dir_prefix, whatever dir_prefix is.
C3_RequiredFieldsFirst ==
    HasBuilt =>
        LET b == built.v.builder
            res == built.v.res
        IN /\ ~IsStr(MapGet(BuiltTable, K_name)) =>
                 /\ res.t = "Err"
                 /\ res.e.kind = "MissingName"
                 /\ res.e.id = b.id
           /\ (IsStr(MapGet(BuiltTable, K_name)) /\ b.command = <<>>) =>
                 /\ res.t = "Err"
                 /\ res.e.kind = "MissingCommand"
                 /\ res.e.id = b.id
           /\ res.t = "Err" => (b.id = game_id.v /\ result = res)

C3_Witness ==
    /\ HasBuilt
    /\ built.v.builder.name.t = "None"
    /\ BaseCommand = <<>>
    /\ built.v.builder.dir_prefix = S_z
    /\ S_z \notin DOMAIN directories
    /\ result = Err([kind |-> "MissingName", id |-> G])

UnrecognizedKeys(table) == DOMAIN table \ OptionKeys

\* C4: once parse_game_config is over for a table with at least one key
\* outside the 14 recognized keys, the result of parse_config is
\* Err(UnrecognizedOption(k)) for such a key k of the table, and no Game
\* was stored for the table.
C4_UnrecognizedOptionReported ==
    (game_id.t = "Some" /\ pc # "keys" /\ UnrecognizedKeys(GameConfig) # {}) =>
        /\ result.t = "Err"
        /\ result.e.kind = "UnrecognizedOption"
        /\ result.e.key \in UnrecognizedKeys(GameConfig)
        /\ game_id.v \notin DOMAIN games

\* the table { name, cmd = "'g" (a quote never closed), zzz } ends in the
\* abort of parse_cmd, before the loop reaches zzz
C4_Witness ==
    /\ pc = "done"
    /\ game_id = Some(G)
    /\ UnrecognizedKeys(GameConfig) = {K_zzz}
    /\ MapGet(GameConfig, K_cmd) = Some(VStr(S_unclosed))
    /\ result = Panic("Failed to parse shell command")

\* C5: with name and command set and a non-empty dir_prefix p, build fails
\* with NoSuchDirectoryPrefix(id, p) iff directories has no string under p
\* (dir empty or not); with a string under p, build succeeds.
C5_DirPrefixResolution ==
    (/\ HasBuilt
     /\ RequiredFieldsSet
     /\ IsStr(MapGet(BuiltTable, K_dir_prefix))
     /\ BuiltTable[K_dir_prefix].v # <<>>) =>
        LET p == BuiltTable[K_dir_prefix].v
            res == built.v.res
            present == p \in DOMAIN directories /\ directories[p].t = "String"
        IN /\ ~present =>
                 /\ res.t = "Err"
                 /\ res.e.kind = "NoSuchDirectoryPrefix"
                 /\ res.e.id = built.v.builder.id
                 /\ res.e.prefix = p
           /\ present => res.t = "Ok"

C5_Witness ==
    /\ HasBuilt
    /\ RequiredFieldsSet
    /\ MapGet(BuiltTable, K_dir_prefix) = Some(VStr(S_k))
    /\ K_dir \notin DOMAIN BuiltTable
    /\ MapGet(directories, S_k) = Some(VInt(3))
    /\ result = Err([kind |-> "NoSuchDirectoryPrefix", id |-> G, prefix |-> S_k])

T_wine == <<"w", "i", "n", "e">>
T_mangohud == <<"m", "a", "n", "g", "o", "h", "u", "d">>
T_mangoapp == <<"-", "-", "m", "a", "n", "g", "o", "a", "p", "p">>
T_sep == <<"-", "-">>
T_r == <<"-", "r">>
T_1280 == <<"1", "2", "8", "0">>
T_720 == <<"7", "2", "0">>
T_60 == <<"6", "0">>

\* C6: without a use_mangohud key the overlay flag is true iff the first
\* token of the (non-empty) base command is "wine", from wine_exe or from
\* cmd; a boolean use_mangohud is the flag, whatever the command.
C6_OverlayInference ==
    BuiltOk =>
        /\ K_use_mangohud \notin DOMAIN BuiltTable =>
              Overlay = (BaseCommand[1] = T_wine)
        /\ IsBool(MapGet(BuiltTable, K_use_mangohud)) =>
              Overlay = BuiltTable[K_use_mangohud].v

\* "wine" typed in cmd, no wine_exe, no use_mangohud
C6_Witness ==
    /\ BuiltOk
    /\ K_use_mangohud \notin DOMAIN BuiltTable
    /\ K_wine_exe \notin DOMAIN BuiltTable
    /\ MapGet(BuiltTable, K_cmd) = Some(VStr(T_wine \o <<" ", "g">>))
    /\ Overlay

\* the settings table of the document, and the width and height it gives
SettingsTable == config.v[K_settings].v
ConfiguredWidth ==
    IF IsInt(MapGet(SettingsTable, K_width))
    THEN DecSigned(SettingsTable[K_width].v) ELSE T_1280
ConfiguredHeight ==
    IF IsInt(MapGet(SettingsTable, K_height))
    THEN DecSigned(SettingsTable[K_height].v) ELSE T_720

FpsSet == IsInt(MapGet(BuiltTable, K_fps_limit))
FpsText == DecSigned(BuiltTable[K_fps_limit].v)

CompositorFlags(W, H) ==
    << <<"g", "a", "m", "e", "s", "c", "o", "p", "e">>,
       <<"-", "W">>, W, <<"-", "H">>, H,
       <<"-", "f">>,
       <<"-", "-", "f", "o", "r", "c", "e", "-", "g", "r", "a", "b", "-",
         "c", "u", "r", "s", "o", "r">> >>

\* argv under the compositor for width and height texts W and H
CompositorArgv(W, H) ==
    CompositorFlags(W, H)
    \o (IF FpsSet THEN <<T_r, FpsText>> ELSE <<>>)
    \o (IF Overlay THEN <<T_mangoapp>> ELSE <<>>)
    \o <<T_sep>>
    \o BaseCommand

\* C7: with the use_gamescope setting on, argv is gamescope -W W -H H -f
\* --force-grab-cursor, then -r N iff an fps limit N was set, then
\* --mangoapp iff the overlay flag is true, then --, then the base command;
\* W and H are the width and height the settings table configures, 1280
\* and 720 when unset.
C7_CompositorArgv ==
    (BuiltOk /\ settings.use_gamescope) =>
        LET argv == BuiltGame.command
            n == Len(argv) - Len(BaseCommand)
        IN /\ argv = CompositorArgv(ConfiguredWidth, ConfiguredHeight)
           /\ argv[n] = T_sep
           /\ argv[n + 1] = BaseCommand[1]
           /\ K_width \notin DOMAIN SettingsTable => argv[3] = T_1280
           /\ K_height \notin DOMAIN SettingsTable => argv[5] = T_720

\* width = -1 reaches argv as 4294967295
C7_Witness ==
    /\ BuiltOk
    /\ settings.use_gamescope
    /\ MapGet(SettingsTable, K_width) = Some(VInt(-1))
    /\ SubSeq(BuiltGame.command, 2, 3)
          = << <<"-", "W">>, <<"4", "2", "9", "4", "9", "6", "7", "2", "9", "5">> >>

\* a width or height the u32 cast leaves as it is
InU32(key) ==
    IsInt(MapGet(SettingsTable, key)) => SettingsTable[key].v >= 0

\* C7 for settings whose width and height are absent, of another shape or
\* not negative: argv is as C7 says.
C7_ArgvWithinU32 ==
    (BuiltOk /\ settings.use_gamescope /\ InU32(K_width) /\ InU32(K_height)) =>
        BuiltGame.command = CompositorArgv(ConfiguredWidth, ConfiguredHeight)

C7_ArgvWithinU32_Witness ==
    /\ BuiltOk
    /\ settings.use_gamescope
    /\ DOMAIN SettingsTable = {K_use_gamescope}
    /\ MapGet(BuiltTable, K_fps_limit) = Some(VInt(60))
    /\ Overlay
    /\ SubSeq(BuiltGame.command, 2, 5) = << <<"-", "W">>, T_1280, <<"-", "H">>, T_720 >>
    /\ SubSeq(BuiltGame.command, 8, 11) = <<T_r, T_60, T_mangoapp, T_sep>>
    /\ BuiltGame.command[12] = T_wine

\* C8: with the compositor off, argv is mangohud followed by the base
\* command when the overlay flag is true and the base command alone when it
\* is false; with the compositor on, what follows -- is the base command
\* itself and no token before it is mangohud.
C8_WrappingsExclusive ==
    BuiltOk =>
        LET argv == BuiltGame.command
            n == Len(argv) - Len(BaseCommand)
        IN IF settings.use_gamescope
           THEN /\ n >= 1
                /\ argv[n] = T_sep
                /\ SubSeq(argv, n + 1, Len(argv)) = BaseCommand
                /\ \A i \in 1..n : argv[i] # T_mangohud
           ELSE IF Overlay
           THEN argv = <<T_mangohud>> \o BaseCommand
           ELSE argv = BaseCommand

C8_Witness ==
    /\ BuiltOk
    /\ settings.use_gamescope
    /\ Overlay
    /\ \E i \in DOMAIN BuiltGame.command : BuiltGame.command[i] = T_mangoapp
    /\ \A i \in DOMAIN BuiltGame.command : BuiltGame.command[i] # T_mangohud

T_MANGOHUD_CONFIG ==
    <<"M", "A", "N", "G", "O", "H", "U", "D", "_", "C", "O", "N", "F", "I", "G">>
T_fps_limit_60 == <<"f", "p", "s", "_", "l", "i", "m", "i", "t", "=", "6", "0">>
T_WINEDLLOVERRIDES ==
    <<"W", "I", "N", "E", "D", "L", "L", "O", "V", "E", "R", "R", "I", "D", "E", "S">>
T_dll_overrides ==
    <<"*", "d", "3", "d", "9", ",",
      "*", "d", "3", "d", "1", "0", ",",
      "*", "d", "3", "d", "1", "0", "_", "1", ",",
      "*", "d", "3", "d", "1", "0", "c", "o", "r", "e", ",",
      "*", "d", "3", "d", "1", "1", ",",
      "*", "d", "x", "g", "i", "=", "b">>

\* the string entries of the game's env table
SuppliedEnv ==
    IF IsTbl(MapGet(BuiltTable, K_env))
    THEN LET tbl == BuiltTable[K_env].v
         IN [k \in {x \in DOMAIN tbl : tbl[x].t = "String"} |-> tbl[k].v]
    ELSE EmptyMap

\* C9: after a successful build with the overlay flag true and an fps limit
\* N, env maps MANGOHUD_CONFIG to "fps_limit=N", compositor on or off,
\* also over an entry of the game's env table; with the flag false or no
\* fps limit, MANGOHUD_CONFIG is what the game's env table gave, if anything.
C9_FpsLimitInjection ==
    BuiltOk =>
        IF Overlay /\ FpsSet
        THEN MapGet(BuiltGame.env, T_MANGOHUD_CONFIG)
                = Some(<<"f", "p", "s", "_", "l", "i", "m", "i", "t", "=">> \o FpsText)
        ELSE MapGet(BuiltGame.env, T_MANGOHUD_CONFIG)
                = MapGet(SuppliedEnv, T_MANGOHUD_CONFIG)

C9_Witness ==
    /\ BuiltOk
    /\ settings.use_gamescope
    /\ Overlay
    /\ MapGet(BuiltTable, K_fps_limit) = Some(VInt(60))
    /\ MapGet(SuppliedEnv, T_MANGOHUD_CONFIG) = Some(<<"x">>)
    /\ BuiltGame.env[T_MANGOHUD_CONFIG] = T_fps_limit_60

UseVkFalse == IsBool(MapGet(BuiltTable, K_use_vk)) /\ ~BuiltTable[K_use_vk].v

\* argv as the settings, the fps limit, the overlay flag and the base
\* command give it
ArgvWithoutUseVk ==
    IF settings.use_gamescope
    THEN CompositorArgv(DecU32(settings.width), DecU32(settings.height))
    ELSE (IF Overlay THEN <<T_mangohud>> ELSE <<>>) \o BaseCommand

\* C10: env maps WINEDLLOVERRIDES to "*d3d9,*d3d10,*d3d10_1,*d3d10core,
\* *d3d11,*dxgi=b" iff use_vk was set to false or the game's env table gave
\* that entry; every other entry of env, MANGOHUD_CONFIG included, is as it
\* is without use_vk, and so is argv.
C10_DllOverridesInjection ==
    BuiltOk =>
        /\ (MapGet(BuiltGame.env, T_WINEDLLOVERRIDES) = Some(T_dll_overrides))
              = (\/ UseVkFalse
                 \/ MapGet(SuppliedEnv, T_WINEDLLOVERRIDES) = Some(T_dll_overrides))
        /\ ~UseVkFalse => MapGet(BuiltGame.env, T_WINEDLLOVERRIDES)
                             = MapGet(SuppliedEnv, T_WINEDLLOVERRIDES)
        /\ DOMAIN BuiltGame.env \ {T_WINEDLLOVERRIDES, T_MANGOHUD_CONFIG}
              = DOMAIN SuppliedEnv \ {T_WINEDLLOVERRIDES, T_MANGOHUD_CONFIG}
        /\ BuiltGame.command = ArgvWithoutUseVk

\* both injections at once
C10_Witness ==
    /\ BuiltOk
    /\ UseVkFalse
    /\ SuppliedEnv = EmptyMap
    /\ BuiltGame.env = (T_WINEDLLOVERRIDES :> T_dll_overrides)
                       @@ (T_MANGOHUD_CONFIG :> T_fps_limit_60)

\* C11: every successful build gives a Game whose argv is non-empty, and the
\* tokens of the base command are a contiguous suffix of argv, in order.
C11_BaseCommandIsSuffix ==
    BuiltOk =>
        LET argv == BuiltGame.command
            n == Len(argv)
            k == Len(BaseCommand)
        IN /\ n >= 1
           /\ k >= 1
           /\ k <= n
           /\ SubSeq(argv, n - k + 1, n) = BaseCommand

\* a command of a program and an argument, wrapped by the compositor
C11_Witness ==
    /\ BuiltOk
    /\ settings.use_gamescope
    /\ Len(BaseCommand) = 2
    /\ Len(BuiltGame.command) > 2
    /\ SubSeq(BuiltGame.command, Len(BuiltGame.command) - 1,
              Len(BuiltGame.command)) = BaseCommand

\* a command of a program and an argument, wrapped by the overlay alone
C11_WitnessOverlay ==
    /\ BuiltOk
    /\ ~settings.use_gamescope
    /\ Overlay
    /\ Len(BaseCommand) = 2
    /\ BuiltGame.command = <<T_mangohud>> \o BaseCommand

(***************************************************************************)
(* Claims about the play statistics.                                       *)
(***************************************************************************)
\* days from 1970-01-01 to the given date of the proleptic Gregorian calendar
DaysFromCivil(year, month, day) ==
    LET y == IF month <= 2 THEN year - 1 ELSE year
        era == y \div 400
        yoe == y - era * 400
        mp == IF month > 2 THEN month - 3 ELSE month + 9
        doy == (153 * mp + 2) \div 5 + day - 1
        doe == yoe * 365 + yoe \div 4 - yoe \div 100 + doy
    IN era * 146097 + doe - 719468

\* the instant a date-time denotes: the day and the second of that day in UTC
Instant(dt) ==
    LET secs == dt.hour * 3600 + dt.minute * 60 + dt.second - dt.offset
    IN <<DaysFromCivil(dt.year, dt.month, dt.day) + secs \div 86400,
         secs % 86400>>

\* C14: for every GameStats whose timestamp has whole seconds, in any UTC
\* offset and with any id, from_tsv(to_tsv(stats)) has the same id, the same
\* play_time_seconds and the same last_played_time instant.
C14_TsvRoundTrip ==
    out.op = "round_trip" =>
        /\ out.res.t = "Ok"
        /\ out.res.v.id = op_in.stats.id
        /\ out.res.v.play_time_seconds = op_in.stats.play_time_seconds
        /\ Instant(out.res.v.last_played_time)
              = Instant(op_in.stats.last_played_time)

\* a timestamp in UTC, as play_game takes it, read back where the local
\* offset is UTC-5: the instant read is five hours later than the one written
C14_Witness ==
    /\ out.op = "round_trip"
    /\ op_in.stats.id = <<"a">>
    /\ op_in.stats.last_played_time = DateTime(2025, 11, 3, 19, 7, 0, 0)
    /\ local_offset = Some(-18000)
    /\ out.res.t = "Ok"
    /\ out.res.v.id = <<"a">>
    /\ out.res.v.last_played_time = DateTime(2025, 11, 3, 19, 7, 0, -18000)
    /\ Instant(out.res.v.last_played_time) = <<20396, 420>>
    /\ Instant(op_in.stats.last_played_time) = <<20395, 68820>>

\* the text the arithmetic of hours, minutes and seconds gives for t seconds
PlayTimeText(t) ==
    LET h == t \div 3600
        m == (t % 3600) \div 60
        s == t % 60
    IN (IF h # 0 THEN Dec(h) \o <<"h">> ELSE <<>>)
       \o (IF m # 0 THEN Dec(m) \o <<"m">> ELSE <<>>)
       \o (IF s # 0 THEN Dec(s) \o <<"s">> ELSE <<>>)

\* C16: format_play_time of t seconds is the concatenation of "<h>h", "<m>m"
\* and "<s>s" for the non-zero ones of h = t div 3600, m = (t mod 3600) div 60
\* and s = t mod 60: 0 gives "", 2700 "45m", 3661 "1h1m1s", 5415 "1h30m15s".
C16_FormatPlayTime ==
    out.op = "format_play_time" =>
        /\ out.text = PlayTimeText(op_in.t)
        /\ op_in.t = 0 => out.text = <<>>
        /\ op_in.t = 2700 => out.text = <<"4", "5", "m">>
        /\ op_in.t = 3661 => out.text = <<"1", "h", "1", "m", "1", "s">>
        /\ op_in.t = 5415 => out.text = <<"1", "h", "3", "0", "m", "1", "5", "s">>

C16_Witness ==
    /\ out.op = "format_play_time"
    /\ op_in.t = 5415
    /\ out.text = <<"1", "h", "3", "0", "m", "1", "5", "s">>

(***************************************************************************)
(* Claims about the catalog.                                               *)
(***************************************************************************)
\* the ids list_games has to list: installed, and selected by the list
Listed ==
    {id \in DOMAIN op_in.catalog :
        /\ op_in.catalog[id].installed
        /\ (op_in.args = <<>> \/ GameMatchesTags(op_in.catalog[id], op_in.args))}

ListEntry(id) == id \o <<" ", "-", " ">> \o op_in.catalog[id].name

\* the id the i-th entry of the list is for
EntryId(i) == CHOOSE id \in DOMAIN op_in.catalog : out.list[i] = ListEntry(id)

\* C19: list_games returns one "id - name" entry for exactly the installed
\* games that pass the selector list (every installed game when the list is
\* empty), in ascending id order; a game that is not installed never appears.
C19_ListGames ==
    out.op = "list_games" =>
        /\ Len(out.list) = Cardinality(Listed)
        /\ \A i \in DOMAIN out.list :
              \E id \in Listed : out.list[i] = ListEntry(id)
        /\ \A id \in Listed :
              \E i \in DOMAIN out.list : out.list[i] = ListEntry(id)
        /\ \A i, j \in DOMAIN out.list :
              i < j => StrLess(EntryId(i), EntryId(j))
        /\ \A id \in DOMAIN op_in.catalog :
              ~op_in.catalog[id].installed =>
                  \A i \in DOMAIN out.list : out.list[i] # ListEntry(id)

\* three games tagged t, "a" not installed: "B" is listed before "b"
C19_Witness ==
    /\ out.op = "list_games"
    /\ op_in.args = << <<"t">> >>
    /\ DOMAIN op_in.catalog = CatalogIds
    /\ \A id \in CatalogIds : op_in.catalog[id].tags = << <<"t">> >>
    /\ ~op_in.catalog[<<"a">>].installed
    /\ op_in.catalog[<<"b">>].installed
    /\ op_in.catalog[<<"B">>].installed
    /\ out.list = << <<"B", " ", "-", " ", "N", "B">>,
                     <<"b", " ", "-", " ", "N", "b">> >>

(***************************************************************************)
(* Claims about recording sessions.                                        *)
(***************************************************************************)
\* the lines of a ledger file that are not empty
FileLines(file) ==
    IF file.t = "Some" THEN SelectSeq(Lines(file.v), LAMBDA l : l # <<>>)
    ELSE <<>>

LineFields(line) == Split(line, "\t")
LineId(line) == LineFields(line)[1]
LineSeconds(line) == LineFields(line)[2]
LineTime(line) == LineFields(line)[3]

AllDigits(s) == \A i \in DOMAIN s : s[i] \in {DIGITS[k] : k \in DOMAIN DIGITS}

\* the number a string of at most two digits denotes
SmallNumber(s) ==
    LET RECURSIVE num(_)
        num(k) == IF k = 0 THEN 0
                  ELSE num(k - 1) * 10
                       + (CHOOSE v \in 0..9 : DIGITS[v + 1] = s[k])
    IN num(Len(s))

\* a decimal numeral without sign or leading zero, at most 2^32 - 1
IsSecondsText(s) ==
    /\ s # <<>>
    /\ AllDigits(s)
    /\ (Len(s) > 1 => s[1] # "0")
    /\ \/ Len(s) < 10
       \/ /\ Len(s) = 10
          /\ \/ s = <<"4", "2", "9", "4", "9", "6", "7", "2", "9", "5">>
             \/ \E i \in 1..10 :
                   /\ SubSeq(s, 1, i - 1)
                         = SubSeq(<<"4", "2", "9", "4", "9", "6", "7", "2", "9", "5">>,
                                  1, i - 1)
                   /\ CharRank(s[i])
                         < CharRank(<<"4", "2", "9", "4", "9", "6", "7", "2", "9", "5">>[i])

\* YYYY-MM-DD HH:MM:SS of a date and a time of day that exist
IsTimeText(s) ==
    /\ Len(s) = 19
    /\ s[5] = "-" /\ s[8] = "-" /\ s[11] = " " /\ s[14] = ":" /\ s[17] = ":"
    /\ AllDigits(SubSeq(s, 1, 4) \o SubSeq(s, 6, 7) \o SubSeq(s, 9, 10)
                 \o SubSeq(s, 12, 13) \o SubSeq(s, 15, 16) \o SubSeq(s, 18, 19))
    /\ LET year == SmallNumber(SubSeq(s, 1, 2)) * 100 + SmallNumber(SubSeq(s, 3, 4))
           month == SmallNumber(SubSeq(s, 6, 7))
           day == SmallNumber(SubSeq(s, 9, 10))
           leap == year % 4 = 0 /\ (year % 100 # 0 \/ year % 400 = 0)
           days == IF month = 2 THEN (IF leap THEN 29 ELSE 28)
                   ELSE IF month \in {4, 6, 9, 11} THEN 30 ELSE 31
       IN /\ month \in 1..12
          /\ day \in 1..days
          /\ SmallNumber(SubSeq(s, 12, 13)) < 24
          /\ SmallNumber(SubSeq(s, 15, 16)) < 60
          /\ SmallNumber(SubSeq(s, 18, 19)) < 60

\* a line of three fields: an id, the seconds, the time
WellFormedLine(line) ==
    /\ Len(LineFields(line)) = 3
    /\ IsSecondsText(LineSeconds(line))
    /\ IsTimeText(LineTime(line))

WellFormedLedger(file) ==
    \A k \in DOMAIN FileLines(file) : WellFormedLine(FileLines(file)[k])

\* the decimal numeral of the number of numeral s plus n, for n >= 0
DecimalPlus(s, n) ==
    LET RECURSIVE add(_, _)
        add(k, carry) ==
            IF k = 0 THEN (IF carry = 0 THEN <<>> ELSE Dec(carry))
            ELSE LET v == SmallNumber(<<s[k]>>) + carry
                 IN add(k - 1, v \div 10) \o <<DIGITS[(v % 10) + 1]>>
    IN add(Len(s), n)

TwoDigits(n) == <<DIGITS[(n \div 10) + 1], DIGITS[(n % 10) + 1]>>

\* YYYY-MM-DD HH:MM:SS of a date-time, in its own offset
TimeText(dt) ==
    TwoDigits(dt.year \div 100) \o TwoDigits(dt.year % 100) \o <<"-">>
    \o TwoDigits(dt.month) \o <<"-">> \o TwoDigits(dt.day) \o <<" ">>
    \o TwoDigits(dt.hour) \o <<":">> \o TwoDigits(dt.minute) \o <<":">>
    \o TwoDigits(dt.second)

LineOf(id, seconds, time) == id \o <<"\t">> \o seconds \o <<"\t">> \o time

\* the commands that call play_game
PlayCommands == {"play", "play-random"}

\* the last command recorded a session: play_game returned Ok after the
\* write
Recorded == out.op \in PlayCommands /\ out.res.t = "Ok"

\* the last command was a play that got as far as the stats file;
\* op_in.before is the file as the play found it
ReachedLedger == out.op \in PlayCommands /\ "before" \in DOMAIN op_in

\* the lines a session of d seconds for g at start makes of the lines old
LinesAfter(old, g, d, start) ==
    IF \E k \in DOMAIN old : LineId(old[k]) = g
    THEN [k \in DOMAIN old |->
             IF LineId(old[k]) = g
             THEN LineOf(g, DecimalPlus(LineSeconds(old[k]), d), TimeText(start))
             ELSE old[k]]
    ELSE old \o <<LineOf(g, Dec(d), TimeText(start))>>

\* C12: recording a session of d seconds for id g on a ledger of well-formed
\* lines: if no line has id g, the new ledger is the old lines followed by
\* one new line for g with d seconds and the start time; if a line has id g,
\* its seconds increase by exactly d and its time becomes the start time;
\* every line of another id is written back byte-identical, in the same order.
C12_RecordSession ==
    (Recorded /\ WellFormedLedger(op_in.before) /\ op_in.sc.d >= 0) =>
        FileLines(ledger)
           = LinesAfter(FileLines(op_in.before), op_in.id, op_in.sc.d,
                        op_in.sc.start)

\* the second line of two is the game's: 5400 seconds become 5410
C12_Witness ==
    /\ out.op = "play"
    /\ out.res.t = "Ok"
    /\ plays = 1
    /\ ledger0 = LedgerBA
    /\ op_in.args = <<A>>
    /\ op_in.sc.d = 10
    /\ op_in.sc.start = T1
    /\ FileLines(ledger)
          = <<FileLines(ledger0)[1],
              <<"a", "\t", "5", "4", "1", "0", "\t",
                "2", "0", "2", "5", "-", "1", "1", "-", "0", "4", " ",
                "0", "8", ":", "0", "0", ":", "0", "0">> >>

\* no line of the game: one line is added after the old ones
C12_WitnessNewLine ==
    /\ out.op = "play"
    /\ out.res.t = "Ok"
    /\ plays = 1
    /\ ledger0 = LedgerA
    /\ op_in.args = <<B>>
    /\ op_in.sc.d = 2700
    /\ FileLines(ledger)
          = FileLines(ledger0)
            \o << <<"b", "\t", "2", "7", "0", "0", "\t",
                    "2", "0", "2", "5", "-", "1", "1", "-", "0", "4", " ",
                    "0", "8", ":", "0", "0", ":", "0", "0">> >>

\* the ids of the lines of a file, and how many lines have a given id
FileIds(file) == {LineId(FileLines(file)[k]) : k \in DOMAIN FileLines(file)}
LinesOfId(file, id) ==
    Cardinality({k \in DOMAIN FileLines(file) : LineId(FileLines(file)[k]) = id})

\* C13: starting from a missing or empty ledger, after any sequence of
\* successful record-session operations the ledger holds at most one line
\* per game id; and a record-session operation never increases the number
\* of lines that share one id.
C13_OneLinePerId ==
    /\ ledger0 \in {NONE, Some(<<>>)} =>
           \A id \in FileIds(ledger) : LinesOfId(ledger, id) = 1
    /\ ReachedLedger =>
           \A id \in FileIds(ledger) :
               \/ LinesOfId(ledger, id) = 1
               \/ LinesOfId(ledger, id) <= LinesOfId(op_in.before, id)

\* a game played twice from a missing ledger: one line, of 20 seconds
C13_Witness ==
    /\ ledger0 = NONE
    /\ plays = 2
    /\ out.op = "play"
    /\ out.res.t = "Ok"
    /\ op_in.args = <<A>>
    /\ FileIds(ledger) = {A}
    /\ LinesOfId(ledger, A) = 1
    /\ LineSeconds(FileLines(ledger)[1]) = <<"2", "0">>

\* the order of two decimal numerals without leading zeros
NumeralLeq(a, b) ==
    \/ Len(a) < Len(b)
    \/ /\ Len(a) = Len(b)
       /\ \/ a = b
          \/ \E i \in DOMAIN a :
                /\ SubSeq(a, 1, i - 1) = SubSeq(b, 1, i - 1)
                /\ CharRank(a[i]) < CharRank(b[i])

\* the seconds of the first line of id in a file
TotalOf(file, id) ==
    LineSeconds(FileLines(file)[CHOOSE k \in DOMAIN FileLines(file) :
                                   /\ LineId(FileLines(file)[k]) = id
                                   /\ \A j \in 1..(k - 1) :
                                         LineId(FileLines(file)[j]) # id])

\* no total stored in the file old is less in the file new
TotalsGrow(old, new) ==
    \A id \in FileIds(old) :
        /\ id \in FileIds(new)
        /\ NumeralLeq(TotalOf(old, id), TotalOf(new, id))

\* C15: across any sequence of record-session operations the seconds stored
\* for an id never decrease and never wrap around 2^32: a session whose
\* elapsed seconds, as play_game measures and converts them, are not a
\* number of the unsigned 32-bit range, or would take the total past
\* 2^32 - 1, makes the operation fail instead of storing a wrapped value.
C15_TotalsNeverWrap ==
    ReachedLedger =>
        /\ TotalsGrow(op_in.before, ledger)
        /\ Recorded =>
              /\ op_in.sc.d >= 0
              /\ \A k \in DOMAIN FileLines(ledger) :
                    LineId(FileLines(ledger)[k]) = op_in.id =>
                       /\ IsSecondsText(LineSeconds(FileLines(ledger)[k]))
                       /\ LineSeconds(FileLines(ledger)[k])
                             = IF k \in DOMAIN FileLines(op_in.before)
                               THEN DecimalPlus(
                                        LineSeconds(FileLines(op_in.before)[k]),
                                        op_in.sc.d)
                               ELSE Dec(op_in.sc.d)

\* the part of C15 that holds: no total decreases, unless fs::write fails
\* after it has opened the file, which leaves of the ledger what went out
\* before the failure
C15_TotalsNeverDecrease ==
    ReachedLedger =>
        \/ out.res = Err(CouldNotWriteStats)
              /\ op_in.sc.write.t = "the write fails"
        \/ TotalsGrow(op_in.before, ledger)

\* the second reading of the clock is five seconds before the first: the
\* first session of "a" is recorded as 4294967291 seconds
C15_Witness ==
    /\ ledger0 = NONE
    /\ plays = 1
    /\ out.op = "play"
    /\ out.res.t = "Ok"
    /\ op_in.args = <<A>>
    /\ op_in.sc.d = -5
    /\ FileLines(ledger)
          = << <<"a", "\t", "4", "2", "9", "4", "9", "6", "7", "2", "9", "1", "\t",
                 "2", "0", "2", "5", "-", "1", "1", "-", "0", "4", " ",
                 "0", "8", ":", "0", "0", ":", "0", "0">> >>

\* the total of "a" is 2^32 - 6 and ten seconds are played: add_time panics
C15_WitnessLoud ==
    /\ ledger0 = LedgerFull
    /\ ledger = ledger0
    /\ out.op = "play"
    /\ op_in.args = <<A>>
    /\ op_in.sc.d = 10
    /\ out.res = Panic("attempt to add with overflow")

(***************************************************************************)
(* Claims about launching.                                                 *)
(***************************************************************************)
\* the last command was a play that got as far as starting the process
Launched ==
    /\ out.op = "play"
    /\ out.ran.t = "Some"
    /\ \E i \in DOMAIN effects : effects[i] = "spawn"

RunFailedWith(kind) == out.ran.v.t = "Err" /\ out.ran.v.e.kind = kind

\* C17: Game::run reports CommandReturnedFailure iff the process exits with
\* code exactly 1; every other exit code, zero or not, makes run return Ok,
\* and a process that could not be started gives ExecutionFailed.
C17_FailureIffExitOne ==
    Launched =>
        /\ RunFailedWith("CommandReturnedFailure") = (op_in.sc.status = Exited(1))
        /\ (op_in.sc.status.t = "code" /\ op_in.sc.status.v # 1) => out.ran.v.t = "Ok"
        /\ op_in.sc.status = SpawnError => out.ran.v = Err(ExecutionFailed)

\* the game exits with code 2: run reports CommandReturnedFailure and
\* nothing is recorded
C17_Witness ==
    /\ Launched
    /\ op_in.sc.status = Exited(2)
    /\ op_in.args = <<A>>
    /\ out.ran.v = Err(CommandReturnedFailure(<<G>>))
    /\ out.res = out.ran.v
    /\ effects[Len(effects)] = "spawn"
    /\ ledger = ledger0
    /\ plays = 0

\* the table of game id in the configuration
TableOf(id) == config.v[K_games].v[id].v

\* the configuration of game id has installed = false
ConfiguredNotInstalled(id) ==
    /\ K_installed \in DOMAIN TableOf(id)
    /\ TableOf(id)[K_installed] = VBool(FALSE)

\* the step is a play of a game whose configuration has installed = false
PlaysNotInstalled ==
    /\ out'.op = "play"
    /\ op_in'.op = "play"
    /\ op_in'.args # <<>>
    /\ op_in'.args[1] \in DOMAIN result.v
    /\ ConfiguredNotInstalled(op_in'.args[1])

\* C18: a game whose configuration has installed = false is never launched:
\* run returns NotInstalled before any change of directory and before any
\* process is spawned, and play_game then writes nothing to the ledger;
\* installed is true when the key is absent.
C18_NotInstalledNeverLaunched ==
    /\ [](Compiled =>
             \A id \in DOMAIN result.v :
                 /\ K_installed \notin DOMAIN TableOf(id) => result.v[id].installed
                 /\ ConfiguredNotInstalled(id) => ~result.v[id].installed)
    /\ [][PlaysNotInstalled =>
             /\ out'.ran = Some(Err(NotInstalled))
             /\ out'.res = Err(NotInstalled)
             /\ effects' = <<>>
             /\ ledger' = ledger]_vars

\* "b" has installed = false and a dir: nothing is done, the two lines of
\* the ledger stay
C18_Witness ==
    /\ out.op = "play"
    /\ op_in.args = <<B>>
    /\ ConfiguredNotInstalled(B)
    /\ result.v[B].dir = Some(S_slash_d)
    /\ ~result.v[B].installed
    /\ result.v[A].installed
    /\ out.res = Err(NotInstalled)
    /\ effects = <<>>
    /\ ledger0 = LedgerBA
    /\ ledger = ledger0

(***************************************************************************)
(* Claims about failures.                                                  *)
(***************************************************************************)
\* C20: every failure of a core operation reaches the caller as an error
\* value and never as a panic: parse_config on a document with no games key,
\* cmd and wine_exe strings with unbalanced quotes, record-session and stats
\* lookup on a ledger line that does not have three well-formed fields.
\* (For Games::random on its own see C20_RandomReturns.)
C20_FailuresAreValues ==
    /\ result.t # "Panic"
    /\ out.op \in PlayCommands \cup {"stats"} => out.res.t # "Panic"

\* C20, for Games::random when no installed game matches the selectors
C20_RandomReturns == out.op = "random" => out.res.t # "Panic"

\* a line of two fields: recording a session of "a" panics in from_tsv
C20_Witness ==
    /\ ledger0 = LedgerShort
    /\ result.t = "Ok"
    /\ out.op = "play"
    /\ op_in.args = <<A>>
    /\ op_in.sc.status = Exited(0)
    /\ out.ran = Some(Ok(<<>>))
    /\ out.res = Panic("index out of bounds")
    /\ ledger = ledger0

\* the same ledger: the lookup of the statistics of "a" panics
C20_WitnessStats ==
    /\ ledger0 = LedgerShort
    /\ out.op = "stats"
    /\ op_in.args = <<A>>
    /\ out.res = Panic("index out of bounds")

\* no games key: parse_config panics on the index
C20_WitnessNoGames ==
    /\ config = VTbl(DocNoGames)
    /\ result = Panic("no entry found for key")

\* a quote that is not closed: parse_cmd panics
C20_WitnessUnclosed ==
    /\ config = VTbl(DocUnclosed)
    /\ result.t = "Panic"

\* play-random with a selector that no installed game matches: the
\* command panics in Games::random before any game is run
C20_WitnessPlayRandom ==
    /\ out.op = "play-random"
    /\ op_in.args = <<<<"z">>>>
    /\ out.ran = NONE
    /\ out.res.t = "Panic"
    /\ effects = <<>>

\* no game of the catalog is installed: Games::random panics
C20_WitnessRandom ==
    /\ out.op = "random"
    /\ op_in.args = <<>>
    /\ op_in.catalog # EmptyMap
    /\ out.res.t = "Panic"

\* a string of the table of the last build, empty when the key is absent
\* or not a string
TableString(key) ==
    IF key \in DOMAIN BuiltTable /\ BuiltTable[key].t = "String"
    THEN BuiltTable[key].v ELSE <<>>

\* the directories-table string under an alias, if there is one
IsAlias(s) == s \in DOMAIN directories /\ directories[s].t = "String"

\* the dir of the table, replaced when it is an alias
AliasedDir ==
    IF IsAlias(TableString(K_dir))
    THEN directories[TableString(K_dir)].v ELSE TableString(K_dir)

\* the string dir_prefix names, empty when no dir_prefix was set
AliasedPrefix ==
    IF TableString(K_dir_prefix) = <<>> THEN <<>>
    ELSE directories[TableString(K_dir_prefix)].v

\* a path with a prefix joined in front: one separator between the two,
\* none when the prefix is empty or ends in one; a dir that starts at the
\* root stands for itself
JoinedPath(prefix, dir) ==
    IF dir # <<>> /\ Head(dir) = "/" THEN dir
    ELSE IF prefix = <<>> THEN dir
    ELSE IF prefix[Len(prefix)] = "/" THEN prefix \o dir
    ELSE prefix \o <<"/">> \o dir

\* C24: in a build that succeeds, dir is replaced by the directories-table
\* string when it is an alias key and kept literally otherwise, the string
\* dir_prefix names (empty when none was set) is joined in front of it as
\* a path prefix, and the working directory is the joined path when that
\* is non-empty and unset exactly when both are empty.
C24_DirectoryResolution ==
    BuiltOk =>
        /\ BuiltGame.dir =
              IF JoinedPath(AliasedPrefix, AliasedDir) # <<>>
              THEN Some(JoinedPath(AliasedPrefix, AliasedDir)) ELSE NONE
        /\ BuiltGame.dir = NONE <=> (AliasedDir = <<>> /\ AliasedPrefix = <<>>)

\* dir_prefix = "k" with directories {k = "/p"} and dir = "d" built "/p/d"
C24_Witness ==
    /\ BuiltOk
    /\ TableString(K_dir_prefix) = S_k
    /\ TableString(K_dir) = S_d
    /\ MapGet(directories, S_k) = Some(VStr(S_p))
    /\ BuiltGame.dir = Some(<<"/", "p", "/", "d">>)

\* dir = "k" alone, an alias of "/p", built "/p"
C24_WitnessAlias ==
    /\ BuiltOk
    /\ TableString(K_dir_prefix) = <<>>
    /\ TableString(K_dir) = S_k
    /\ MapGet(directories, S_k) = Some(VStr(S_p))
    /\ BuiltGame.dir = Some(S_p)

\* neither dir nor dir_prefix: no working directory
C24_WitnessUnset ==
    /\ BuiltOk
    /\ K_dir \notin DOMAIN BuiltTable
    /\ K_dir_prefix \notin DOMAIN BuiltTable
    /\ BuiltGame.dir = NONE

\* a dir that starts at the root, under a prefix
C24_WitnessRoot ==
    /\ BuiltOk
    /\ AliasedPrefix = S_p
    /\ AliasedDir = <<"/", "d">>
    /\ BuiltGame.dir = Some(<<"/", "d">>)

\* a prefix alone
C24_WitnessPrefixAlone ==
    /\ BuiltOk
    /\ AliasedPrefix = S_p
    /\ AliasedDir = <<>>
    /\ BuiltGame.dir = Some(<<"/", "p", "/">>)

(***************************************************************************)
(* Claims about the handlers of a game's table.                            *)
(***************************************************************************)
\* C21: for one game's table, parse_game_config produces the same
\* GameRecord, or the same error, in whatever order the handlers of the
\* table's keys are applied to the builder.
C21_OrderInsensitive ==
    out.op = "order" => out.res = out.ascending

\* a table with cmd and wine_exe was compiled with wine_exe applied first
\* and then in ascending order, and both gave a GameRecord
C21_Witness ==
    /\ out.op = "order"
    /\ {K_cmd, K_wine_exe} \subseteq DOMAIN op_in.table
    /\ op_in.order = <<K_wine_exe, K_name, K_cmd>>
    /\ out.res.t = "Ok"
    /\ out.ascending.t = "Ok"
    /\ out.res.v.command # out.ascending.v.command

\* C22: a recognized key whose value has the wrong shape is as good as
\* absent: the table compiles to the result of the same table without the
\* key, be it a GameRecord or an error.
C22_WrongShapeIsAbsent ==
    out.op = "shape" => out.res = out.removed

\* use_mangohud = "yes" beside wine_exe was compiled, and so was the table
\* without use_mangohud; both gave a GameRecord
C22_Witness ==
    /\ out.op = "shape"
    /\ op_in.key = K_use_mangohud
    /\ K_wine_exe \in DOMAIN op_in.table
    /\ ~op_in.stg.use_gamescope
    /\ out.res.t = "Ok"
    /\ out.removed.t = "Ok"
    /\ out.res.v.command = <<S_wine, <<"g">> >>
    /\ out.removed.v.command = <<S_mangohud, S_wine, <<"g">> >>

\* the wrong shapes of every key but use_mangohud are as good as absent
C22_OtherKeysAbsent ==
    (out.op = "shape" /\ op_in.key # K_use_mangohud) => out.res = out.removed

\* the two values of the key give two different GameRecords
TakesEffect(input) ==
    /\ CompileWith(input, input.first).t = "Ok"
    /\ CompileWith(input, input.second).t = "Ok"
    /\ CompileWith(input, input.first) # CompileWith(input, input.second)

\* C25: no recognized key is silently dropped: for the key that was varied
\* there are two well-shaped values and a rest of the table and settings,
\* held fixed, for which the built GameRecords differ; in particular for
\* the per-game use_gamescope key.
C25_EveryKeyTakesEffect ==
    out.op = "vary" =>
        \E input \in VaryInputs : input.key = op_in.key /\ TakesEffect(input)

\* use_gamescope = true and use_gamescope = false were compiled on a table
\* that compiles, under settings without gamescope
C25_Witness ==
    /\ out.op = "vary"
    /\ op_in.key = K_use_gamescope
    /\ op_in.first = VBool(TRUE)
    /\ op_in.second = VBool(FALSE)
    /\ ~op_in.stg.use_gamescope
    /\ out.first.t = "Ok"
    /\ out.second = out.first

\* whatever the rest of the table and the settings, the value of the
\* per-game use_gamescope key does not show in the result
C25_GamescopeKeyDropped ==
    (out.op = "vary" /\ op_in.key = K_use_gamescope) => out.first = out.second

\* every other key takes effect
C25_OtherKeysTakeEffect ==
    (out.op = "vary" /\ op_in.key # K_use_gamescope) =>
        \E input \in VaryInputs : input.key = op_in.key /\ TakesEffect(input)

(***************************************************************************)
(* Claims about negation in tag selection.                                 *)
(***************************************************************************)
\* the names q negates: the literals of q that start with '!', without it
NegatedIn(q) ==
    {SubSeq(q, s + 1, SegEnd(q, s)) :
        s \in {r \in SegStarts(q) : r <= Len(q) /\ q[r] = "!"}}

\* C26: negation excludes at selection level: game_matches_tags(game, [q])
\* is false whenever q negates a tag the game has; so ["!t"] never selects
\* a game tagged t, and "x,!z" never selects a game tagged z.
C26_NegationExcludes ==
    (/\ q_out.op = "game_matches_tags"
     /\ Len(q_args) = 1
     /\ NegatedIn(q_args[1]) \cap QTagSet # {}) => ~q_out.ok

\* game "x" tagged b was tried on ["!b"], and was selected
C26_Witness ==
    /\ q_out.op = "game_matches_tags"
    /\ q_args = << <<"!", "b">> >>
    /\ q_game.id = <<"x">>
    /\ q_game.tags = << <<"b">> >>
    /\ q_out.ok

\* a game tagged a and b was tried on ["a,!b"], and was selected
C26_WitnessConjunction ==
    /\ q_out.op = "game_matches_tags"
    /\ q_args = << Q_a_not_b >>
    /\ q_game.id = <<"a">>
    /\ QTagSet = {<<"a">>, <<"b">>}
    /\ q_out.ok

\* on the game's tags alone, TagGroup::matches does exclude
C26_MatchesExcludes ==
    (/\ q_out.op = "matches"
     /\ NegatedIn(q_args[1]) \cap QTagSet # {}) => ~q_out.ok

(***************************************************************************)
(* Claims about the ledger and the launch.                                 *)
(***************************************************************************)
\* the last command was play_game on a game of the catalog
Played == out.op \in PlayCommands /\ out.ran.t = "Some"

\* the last command read or wrote the ledger file
TouchedLedger == \E i \in DOMAIN effects : effects[i] \in {"read", "write"}

\* C27: play_game touches the ledger only after a successful run: when
\* Game::run returns an error the ledger file is neither read nor written
\* and play_game returns that error unchanged; CouldNotWriteStats is
\* returned only when the run succeeded and the rewrite of the ledger
\* failed.
C27_LedgerOnlyAfterRun ==
    /\ [](Played =>
            /\ out.ran.v.t = "Err" => (out.res = out.ran.v /\ ~TouchedLedger)
            /\ out.res = Err(CouldNotWriteStats) =>
                  /\ out.ran.v.t = "Ok"
                  /\ op_in.sc.write # WRITTEN
                  /\ effects[Len(effects)] = "write")
    /\ [][(out'.op \in PlayCommands /\ out'.ran.t = "Some"
               /\ out'.ran.v.t = "Err") =>
             ledger' = ledger]_vars

\* the game ran, the ledger was read, the file could not be opened for
\* the rewrite: the file is as it was and play_game returns
\* CouldNotWriteStats
C27_Witness ==
    /\ Played
    /\ op_in.args = <<A>>
    /\ out.ran.v.t = "Ok"
    /\ op_in.sc.write = OPEN_FAILS
    /\ out.res = Err(CouldNotWriteStats)
    /\ effects = <<"spawn", "read", "write">>
    /\ ledger0 = LedgerA
    /\ ledger = LedgerA
    /\ plays = 0

\* the game ran, the ledger was read, the file was opened and the write
\* failed: the file is empty and play_game returns CouldNotWriteStats
C27_WitnessEmptied ==
    /\ Played
    /\ op_in.args = <<A>>
    /\ out.ran.v.t = "Ok"
    /\ op_in.sc.write = WRITE_FAILS
    /\ out.res = Err(CouldNotWriteStats)
    /\ effects = <<"spawn", "read", "write">>
    /\ ledger0 = LedgerA
    /\ ledger = Some(<<>>)
    /\ plays = 1

\* the write failed after the first ten characters of the text had gone
\* out: the file holds them and play_game returns CouldNotWriteStats
C27_WitnessCut ==
    /\ Played
    /\ op_in.args = <<A>>
    /\ out.ran.v.t = "Ok"
    /\ op_in.sc.write = WriteFails(10)
    /\ out.res = Err(CouldNotWriteStats)
    /\ effects = <<"spawn", "read", "write">>
    /\ ledger0 = LedgerA
    /\ ledger = Some(<<"a", "\t", "5", "4", "1", "0", "\t", "2", "0", "2">>)
    /\ plays = 1

\* the write failed after thirty characters of the two lines had gone
\* out: the file holds the first line and the start of the second
C27_WitnessCutSecondLine ==
    /\ Played
    /\ op_in.args = <<A>>
    /\ op_in.sc.write = WriteFails(30)
    /\ out.res = Err(CouldNotWriteStats)
    /\ ledger0 = LedgerBA
    /\ plays = 1
    /\ FileLines(ledger)
          = <<FileLines(ledger0)[1], <<"a", "\t", "5", "4", "1", "0">> >>

\* the directory could not be entered: nothing else was done
C27_WitnessChdir ==
    /\ Played
    /\ out.res = Err(CouldNotChangeDirectory(S_slash_d))
    /\ out.ran.v = out.res
    /\ effects = <<"chdir">>
    /\ ledger = LedgerBA

\* the process could not be started, or returned a failure
C27_WitnessSpawn ==
    /\ Played
    /\ out.res = Err(ExecutionFailed)
    /\ effects = <<"chdir", "spawn">>
    /\ ledger = ledger0

C27_WitnessFailure ==
    /\ Played
    /\ out.res = Err(CommandReturnedFailure(<<G>>))
    /\ op_in.sc.status = Exited(1)
    /\ effects = <<"spawn">>
    /\ ledger = ledger0
    /\ ledger0 = LedgerA

(***************************************************************************)
(* Claims about two plays side by side.                                    *)
(***************************************************************************)
\* the commands of two terminals have returned
BothReturned ==
    /\ Len(sessions) = 2
    /\ \A p \in DOMAIN sessions : sessions[p].pc = "done"

\* there are two terminals and play_game has returned Ok in both
BothRecorded ==
    /\ BothReturned
    /\ \A p \in DOMAIN sessions :
          sessions[p].cmd = "play" /\ sessions[p].res = Ok(<<>>)

\* process q read the file after play_game had returned in process p
RanAfter(p, q) == p # q /\ p \in sessions[q].after

\* both processes read the file as it was at the start
BothReadTheStart ==
    \A p \in DOMAIN sessions : sessions[p].held = ledger0

\* the lines the session of process p makes of the lines old
SessionLines(old, p) ==
    LinesAfter(old, sessions[p].game.id, sessions[p].sc.d, sessions[p].sc.start)

\* the seconds of all the sessions of id
SessionSeconds(id) ==
    LET RECURSIVE sum(_)
        sum(k) == IF k = 0 THEN 0
                  ELSE sum(k - 1)
                       + (IF sessions[k].game.id = id THEN sessions[k].sc.d ELSE 0)
    IN sum(Len(sessions))

\* the total of id at the start, "0" when it has no line
StartTotal(id) ==
    IF id \in FileIds(ledger0) THEN TotalOf(ledger0, id) ELSE <<"0">>

\* every game played has a line, and its total is its total at the start
\* plus the seconds of all its sessions
NoUpdateLost ==
    \A p \in DOMAIN sessions :
        /\ sessions[p].game.id \in FileIds(ledger)
        /\ TotalOf(ledger, sessions[p].game.id)
              = DecimalPlus(StartTotal(sessions[p].game.id),
                            SessionSeconds(sessions[p].game.id))

\* text starts with the characters of head
StartsWith(text, head) ==
    Len(head) <= Len(text) /\ SubSeq(text, 1, Len(head)) = head

\* C23: two record-session operations on one ledger of well-formed lines,
\* both returning Ok.  When one runs after the other (the second opens the
\* file after the first has returned) no update is lost: the ledger is
\* what the two sessions make of it in turn, every game played has a line
\* and its total is the total at the start plus the seconds of its
\* sessions.  When they run together and both read the ledger as it was
\* at the start, the ledger at the end starts with what one session alone
\* makes of the ledger at the start (the last writer wins): the update of
\* the other is in the file only if what lies beyond the last writer's
\* text happens to hold it.
C23_LostUpdate ==
    /\ \A p, q \in DOMAIN sessions :
          BothRecorded /\ RanAfter(p, q) =>
              /\ FileLines(ledger)
                    = SessionLines(SessionLines(FileLines(ledger0), p), q)
              /\ NoUpdateLost
    /\ BothRecorded /\ BothReadTheStart =>
          \E p \in DOMAIN sessions :
              StartsWith(ledger.v,
                         JoinLines(SessionLines(FileLines(ledger0), p)))

\* two sessions of "a" run together on a ledger with a line of "a": the
\* total at the end is less than the total at the start plus both sessions
C23_Witness ==
    /\ BothRecorded
    /\ BothReadTheStart
    /\ ledger0 = LedgerA
    /\ sessions[1].game.id = A /\ sessions[1].sc.d = 2700
    /\ sessions[2].game.id = A /\ sessions[2].sc.d = 60
    /\ TotalOf(ledger, A) = Dec(5460)
    /\ NumeralLeq(TotalOf(ledger, A), Dec(5400 + 2700 + 60))
    /\ TotalOf(ledger, A) # Dec(5400 + 2700 + 60)

\* sessions of "a" and of "b" run together on a missing ledger: the line
\* appended for "a" is missing at the end
C23_WitnessLostLine ==
    /\ BothRecorded
    /\ ledger0 = NONE
    /\ sessions[1].game.id = A
    /\ sessions[2].game.id = B
    /\ FileIds(ledger) = {B}

\* the second process reads the file while the first has emptied it and
\* not yet filled it: the line of "b" at the start is missing at the end
C23_WitnessEmptied ==
    /\ BothRecorded
    /\ ledger0 = LedgerBA
    /\ sessions[2].held = Some(<<>>)
    /\ FileIds(ledger) = {sessions[2].game.id}
    /\ sessions[2].game.id = A

\* both read the missing ledger, both open the file, the longer text of
\* "a" is written first and the text of "b" over it: the end of the text
\* of "a" stays in the file as a line of its own
C23_WitnessTail ==
    /\ BothRecorded
    /\ ledger0 = NONE
    /\ sessions[1].game.id = A /\ sessions[1].sc.d = 2700
    /\ sessions[2].game.id = B
    /\ FileLines(ledger) = <<LineOf(B, Dec(60), TimeText(T2)), <<"0">> >>

\* the second process reads the 51 characters of the file, the first
\* writes 54, and the second reads on: it holds the old text and the last
\* three characters of the new, and from_tsv panics on them
C23_WitnessTornRead ==
    /\ BothReturned
    /\ sessions[2].cmd = "play"
    /\ ledger0 = LedgerBA
    /\ sessions[1].game.id = B /\ sessions[1].sc.d = 2700
    /\ sessions[1].res = Ok(<<>>)
    /\ sessions[2].game.id = A
    /\ sessions[2].held = Some(ledger0.v \o <<"0", "0", "\n">>)
    /\ sessions[2].res = Panic("index out of bounds")
    /\ FileLines(ledger)
          = <<LineOf(B, Dec(2707), TimeText(T1)), FileLines(ledger0)[2]>>

\* the write fails after the open: CouldNotWriteStats and an empty file
C23_WitnessWriteFails ==
    /\ BothReturned
    /\ ledger0 = LedgerA
    /\ sessions[2].res = Err(CouldNotWriteStats)
    /\ sessions[2].sc.write = WRITE_FAILS
    /\ ledger = Some(<<>>)

\* two sessions of "a" one after the other: the total is the sum
C23_WitnessInTurn ==
    /\ BothRecorded
    /\ RanAfter(1, 2)
    /\ ledger0 = LedgerA
    /\ sessions[1].game.id = A /\ sessions[1].sc.d = 2700
    /\ sessions[2].game.id = A
    /\ TotalOf(ledger, A) = Dec(5400 + 2700 + 60)

\* two sessions one after the other on a missing ledger: both lines
C23_WitnessInTurnLines ==
    /\ BothRecorded
    /\ RanAfter(2, 1)
    /\ ledger0 = NONE
    /\ FileLines(ledger)
          = <<LineOf(B, Dec(60), TimeText(T2)), LineOf(A, Dec(10), TimeText(T1))>>

\* the write of the second process fails after ten characters; the first
\* process reads them and from_tsv panics on the date that is cut
C23_WitnessCutRead ==
    /\ BothReturned
    /\ ledger0 = LedgerA
    /\ sessions[2].cmd = "play"
    /\ sessions[2].sc.write = WriteFails(10)
    /\ sessions[2].res = Err(CouldNotWriteStats)
    /\ sessions[1].held = Some(<<"a", "\t", "5", "4", "6", "0", "\t", "2", "0", "2">>)
    /\ sessions[1].res.t = "Panic"
    /\ ledger = sessions[1].held

\* the statistics of "a" are looked up while the play of the first
\* process has emptied the file and not yet written it: No stats found,
\* with a line of "a" in the file before and after
C23_WitnessStatsEmptied ==
    /\ BothReturned
    /\ ledger0 = LedgerA
    /\ sessions[1].res = Ok(<<>>)
    /\ sessions[2].cmd = "stats"
    /\ sessions[2].args = <<A>>
    /\ sessions[2].held = Some(<<>>)
    /\ sessions[2].res = Ok(<<S_no_stats>>)
    /\ A \in FileIds(ledger)

\* the statistics of "a" are looked up while "b" is played for 2700
\* seconds: the lookup reads the 24 characters of the file, the play
\* writes 27, and the lookup reads on and panics on the three characters
\* it finds
C23_WitnessStatsTorn ==
    /\ BothReturned
    /\ ledger0 = LedgerB
    /\ sessions[1].game.id = B /\ sessions[1].sc.d = 2700
    /\ sessions[1].res = Ok(<<>>)
    /\ sessions[2].cmd = "stats"
    /\ sessions[2].args = <<A>>
    /\ sessions[2].held = Some(ledger0.v \o <<"0", "0", "\n">>)
    /\ sessions[2].res = Panic("index out of bounds")

\* three terminals.  The third opens the file of 27 characters, the first
\* writes 29, the third reads 27 of them, the second empties the file and
\* the third reads nothing more: it holds the text of the first cut at 27
\* characters and writes it back with the time it made of them
C23_WitnessCutText ==
    /\ Len(sessions) = 3
    /\ \A p \in DOMAIN sessions : sessions[p].pc = "done"
    /\ sessions[3].start_cap = 27
    /\ sessions[3].held
          = Some(SubSeq(ToTsv(GameStatsNew(A, U32(105399), T2)), 1, 27))
    /\ sessions[3].res = Ok(<<>>)
    /\ StartsWith(ledger.v, sessions[3].text)
    /\ FileLines(ledger)[1] # LineOf(A, Dec(105399), TimeText(T2))
====
